---- MODULE Spec2Model ----
(***************************************************************************)
(* Model of the revio agent runtime: the lifecycle supervisor (main() of   *)
(* the Bitbucket and GitHub agents, which are the same code up to the name *)
(* of the reporting service) and the WebSocketService it drives.           *)
(*                                                                         *)
(* Time is discrete.  One tick is an arbitrary unit; the connect, review    *)
(* and idle timeouts are read from the environment (config/env.ts), so any *)
(* positive values are configurations the program can run with; the bound  *)
(* of the publish wait is fixed (30 s) and is taken here as a few ticks,   *)
(* longer than the idle timeout.  A timer callback runs when               *)
(* its deadline is reached: time does not advance past a pending deadline. *)
(* A promise continuation is a microtask, so it runs in the same step as   *)
(* the event that settles the promise.  process.exit() ends the process:   *)
(* nothing is scheduled once exited is TRUE.                               *)
(***************************************************************************)
EXTENDS Integers, Sequences, FiniteSets, TLC

\* ------------------------------------------------------------- bounds
MaxTime == 5
MaxCommands == 1
MaxFindings == 1
MaxDrops == 1
MaxInFlight == 2
MaxLines == 3
MaxFileLines == 5
MaxSearchLines == 2
MaxRegistrations == 2
MaxFiles == 2
MaxCalls == 2
MaxPublishes == 2
MaxFindingsLen == 101

\* ------------------------------------------- configuration (in ticks)
CONNECTION_TIMEOUT == 1
REVIEW_TIMEOUT == 3
IDLE_TIMEOUT == 2
PUBLISH_TIMEOUT == 3
maxReconnectAttempts == 5

\* commandId is an opaque token the backend chooses, unique per command; the
\* behaviours are symmetric in the tokens, so the i-th command carries the
\* i-th of them
CommandIds == <<"a", "b", "c", "d">>
KnownTypes == {"read_file", "get_diff", "search", "list_files", "get_dependencies"}
\* the types the backend is drawn to send: one non-critical known type, the
\* critical one, and the declared type the switch does not handle
CommandTypes == {"read_file", "get_diff", "run_check"}
\* variant: read_file is a critical command as well
criticalCommands_WithReadFile == {"get_diff", "read_file"}

criticalCommands == {"get_diff"}
Outcomes == {"ok", "error"}
FatalReasons == {"connection_timeout", "agent_failed", "idle_timeout",
                 "review_timeout", "critical_error"}

VARIABLES
  env,               \* [FAIL_SAFE, publisher]: ENV.FAIL_SAFE, bitbucketService/githubService # null
  now,               \* the clock
  timers,            \* pending setTimeout timers: records [kind, at]
  pc,                \* main(): "connect" (awaiting wsService.connect()) or "registered"
  idleTimeout,       \* main's idleTimeout handle: {} (null) or {deadline}
  reviewTimeout,     \* main's reviewTimeout handle: {} (not yet set) or {deadline}
  reviewCompleted,   \* main's reviewCompleted flag
  publishes,         \* the publish operations started so far: "running", "ok" or "failed"
  pendingPublish,    \* main's pendingBitbucketPublish: 0 (null) or an index of publishes
  waiters,           \* suspended onReviewComplete invocations: [pub, since]
  socket,            \* WebSocketService.socket # null
  transport,         \* socket.io: "connecting", "connected" or "closed"
  reconnectAttempts, \* WebSocketService.reconnectAttempts
  slot,              \* the four callback slots of WebSocketService: "null" or "main"
  cmds,              \* commands received: [commandId, type, status]
  outbox,            \* messages emitted on the socket, in order
  exited,            \* process.exit() has been called
  exitCodes,         \* the codes passed to process.exit(), in order
  exitReason,        \* which path called process.exit()
  lastActivity,      \* history: time of the last activity notification (or of connect)
  connectTime,       \* history: time connect() resolved
  firstTrigger,      \* history: the first terminal trigger that occurred
  drops,             \* history: transport disconnects so far
  teardowns,         \* history: calls of socket.disconnect() made by disconnect()
  trace,             \* history: the last inbound message and the callbacks its
                     \* handler invoked, in order (recorded by InboundSpec only)
  call               \* a call of a collaborator's function: [fn, arg, done, out]

vars == <<env, now, timers, pc, idleTimeout, reviewTimeout, reviewCompleted,
          publishes, pendingPublish, waiters, socket, transport,
          reconnectAttempts, slot, cmds, outbox, exited, exitCodes, exitReason,
          lastActivity, connectTime, firstTrigger, drops, teardowns, trace,
          call>>

mainVars == <<pc, idleTimeout, reviewTimeout, reviewCompleted, publishes,
              pendingPublish, waiters>>
wsVars == <<socket, teardowns, transport, reconnectAttempts, slot, cmds, outbox>>
exitVars == <<exited, exitCodes, exitReason>>

\* ------------------------------------------------------------ helpers
Timer(kind, at) == [kind |-> kind, at |-> at]
Handles(kind, handle) == {Timer(kind, d) : d \in handle}
Due(kind) == {t \in timers : t.kind = kind /\ t.at <= now}
Running == ~exited
Connected == Running /\ socket /\ transport = "connected"

Register == [event |-> "agent:register", commandId |-> "", success |-> TRUE,
             error |-> <<>>, cmd |-> 0]

FindingsMessage == [event |-> "agent:findings", commandId |-> "", success |-> TRUE,
                    error |-> <<>>, cmd |-> 0]

Trigger(name) == firstTrigger' = IF firstTrigger = "none" THEN name ELSE firstTrigger

\* process.exit(code)
ProcessExit(code, reason) ==
  /\ exited' = TRUE
  /\ exitCodes' = Append(exitCodes, code)
  /\ exitReason' = reason

\* variant: the exit code does not look at FAIL_SAFE
exitWithError_IgnoresFailSafe(message) ==
  ProcessExit(1, message)

exitWithError(message) ==
  ProcessExit(IF env.FAIL_SAFE THEN 0 ELSE 1, message)

\* variant: the socket is torn down without the null check
disconnect_NoGuard ==
  /\ socket' = FALSE
  /\ teardowns' = teardowns + 1
  /\ transport' = "closed"

\* WebSocketService.disconnect()
disconnect ==
  /\ socket' = FALSE
  /\ teardowns' = IF socket THEN teardowns + 1 ELSE teardowns
  /\ transport' = IF socket THEN "closed" ELSE transport

\* variant: the previous idle timer is not cleared
resetIdleTimeout_NoClear(ts) ==
  ts \cup {Timer("idle", now + IDLE_TIMEOUT)}

\* variant: the previous idle timer is cleared only once it is due
resetIdleTimeout_ClearsDueOnly(ts) ==
  (ts \ {t \in Handles("idle", idleTimeout) : t.at <= now})
    \cup {Timer("idle", now + IDLE_TIMEOUT)}

\* variant: every reset also rearms the review-timeout
resetIdleTimeout_RearmsReview(ts) ==
  ({t \in ts : t.kind # "review"} \ Handles("idle", idleTimeout))
    \cup {Timer("idle", now + IDLE_TIMEOUT), Timer("review", now + REVIEW_TIMEOUT)}

\* the timers left after resetIdleTimeout()
resetIdleTimeout(ts) ==
  (ts \ Handles("idle", idleTimeout)) \cup {Timer("idle", now + IDLE_TIMEOUT)}

\* `if (this.activityCallback) this.activityCallback()` : the timers and the
\* idle handle after an inbound message
Activity ==
  /\ lastActivity' = now
  /\ IF slot.activity = "main"
       THEN /\ timers' = resetIdleTimeout(timers)
            /\ idleTimeout' = {now + IDLE_TIMEOUT}
       ELSE UNCHANGED <<timers, idleTimeout>>

Init ==
  /\ env \in [FAIL_SAFE : BOOLEAN, publisher : BOOLEAN]
  /\ now = 0
  /\ timers = {Timer("connect", CONNECTION_TIMEOUT)}
  /\ pc = "connect"
  /\ idleTimeout = {}
  /\ reviewTimeout = {}
  /\ reviewCompleted = FALSE
  /\ publishes = <<>>
  /\ pendingPublish = 0
  /\ waiters = {}
  /\ socket = TRUE
  /\ transport = "connecting"
  /\ reconnectAttempts = 0
  /\ slot = [reviewComplete |-> "null", activity |-> "null",
             criticalError |-> "null", findings |-> "null"]
  /\ cmds = <<>>
  /\ outbox = <<>>
  /\ exited = FALSE
  /\ exitCodes = <<>>
  /\ exitReason = "none"
  /\ lastActivity = 0
  /\ connectTime = 0
  /\ firstTrigger = "none"
  /\ drops = 0
  /\ teardowns = 0
  /\ trace = [msg |-> "none", calls |-> <<>>]
  /\ call = [fn |-> "none", arg |-> <<>>, done |-> FALSE, out |-> <<>>]

\* ------------------------------------------------------------- time
Tick ==
  /\ Running
  /\ now < MaxTime
  /\ \A t \in timers : t.at > now
  /\ now' = now + 1
  /\ UNCHANGED <<env, call, timers, mainVars, wsVars, exitVars, lastActivity,
                 connectTime, firstTrigger, drops,
                 trace>>

\* ------------------------------------------------- the callbacks of main
\* variant: the critical-error callback leaves the idle watchdog armed
onCriticalError_KeepsIdle ==
  /\ timers' = timers \ Handles("review", reviewTimeout)
  /\ disconnect
  /\ exitWithError("critical_error")

\* wsService.onCriticalError(...)
onCriticalError ==
  /\ timers' = (timers \ Handles("review", reviewTimeout)) \ Handles("idle", idleTimeout)
  /\ disconnect
  /\ exitWithError("critical_error")

\* the timers left by the body of wsService.onReviewComplete(...) up to its
\* first await, given the timers ts and the idle handle h it finds
clearOnComplete(ts, h) ==
  (ts \ Handles("review", reviewTimeout)) \ Handles("idle", h)

\* variant: the publish is awaited without the race against a timer
awaitPublish_NoTimeout(ts, p) == ts

\* the timers onReviewComplete leaves when it has to wait for the publish p
awaitPublish(ts, p) ==
  IF p # 0 /\ publishes[p] = "running"
    THEN ts \cup {Timer("publish", now + PUBLISH_TIMEOUT)}
    ELSE ts

\* variant: the handler's own callback runs before the activity notification
HandlerCalls_ActivityLast(msg) ==
  CASE msg = "agent:command"    -> <<"handleCommand", "activity">>
    [] msg = "agent:registered" -> <<"activity">>
    [] msg = "review:complete"  -> <<"reviewComplete", "activity">>
    [] msg = "review:findings"  -> <<"findings", "activity">>
    [] msg = "agent:error"      -> <<"criticalError">>

\* the callbacks the handler of an inbound message invokes, in order
HandlerCalls(msg) ==
  CASE msg = "agent:command"    -> <<"activity", "handleCommand">>
    [] msg = "agent:registered" -> <<"activity">>
    [] msg = "review:complete"  -> <<"activity", "reviewComplete">>
    [] msg = "review:findings"  -> <<"activity", "findings">>
    [] msg = "agent:error"      -> <<"criticalError">>

\* the timers and the idle handle after the calls, in order, of the
\* synchronous part of the review:complete handler, from the state st
RECURSIVE RunCalls(_, _)
RunCalls(calls, st) ==
  IF calls = <<>> THEN st
  ELSE LET after ==
             CASE Head(calls) = "activity" ->
                    [timers |-> (st.timers \ Handles("idle", st.idle))
                                  \cup {Timer("idle", now + IDLE_TIMEOUT)},
                     idle |-> {now + IDLE_TIMEOUT}]
               [] Head(calls) = "reviewComplete" ->
                    [timers |-> clearOnComplete(st.timers, st.idle),
                     idle |-> st.idle]
       IN RunCalls(Tail(calls), after)

\* ------------------------------------------------- connection events
\* variant: main does not clear the connect-timeout after connect()
Connect_KeepsConnectTimeout ==
  /\ Running /\ socket /\ transport = "connecting" /\ pc = "connect"
  /\ transport' = "connected"
  /\ reconnectAttempts' = 0
  /\ outbox' = Append(outbox, Register)
  /\ pc' = "registered"
  /\ timers' = (resetIdleTimeout(timers))
                 \cup {Timer("review", now + REVIEW_TIMEOUT)}
  /\ idleTimeout' = {now + IDLE_TIMEOUT}
  /\ reviewTimeout' = {now + REVIEW_TIMEOUT}
  /\ slot' = [reviewComplete |-> "main", activity |-> "main",
              criticalError |-> "main", findings |-> "main"]
  /\ connectTime' = now
  /\ lastActivity' = now
  /\ UNCHANGED <<env, call, now, reviewCompleted, publishes, pendingPublish, waiters,
                 socket, teardowns, cmds, exitVars, firstTrigger, drops,
                 trace>>

\* socket.on('connect') while main awaits connect(): register, resolve, and
\* the continuation of main up to the end of its try block
Connect ==
  /\ Running /\ socket /\ transport = "connecting" /\ pc = "connect"
  /\ transport' = "connected"
  /\ reconnectAttempts' = 0
  /\ outbox' = Append(outbox, Register)
  /\ pc' = "registered"
  /\ timers' = (resetIdleTimeout(timers \ {t \in timers : t.kind = "connect"}))
                 \cup {Timer("review", now + REVIEW_TIMEOUT)}
  /\ idleTimeout' = {now + IDLE_TIMEOUT}
  /\ reviewTimeout' = {now + REVIEW_TIMEOUT}
  /\ slot' = [reviewComplete |-> "main", activity |-> "main",
              criticalError |-> "main", findings |-> "main"]
  /\ connectTime' = now
  /\ lastActivity' = now
  /\ UNCHANGED <<env, call, now, reviewCompleted, publishes, pendingPublish, waiters,
                 socket, teardowns, cmds, exitVars, firstTrigger, drops,
                 trace>>

\* variant: the agent registers on its first connect only
Reconnect_NoRegister ==
  /\ Running /\ socket /\ transport = "connecting" /\ pc = "registered"
  /\ transport' = "connected"
  /\ reconnectAttempts' = 0
  /\ outbox' = outbox
  /\ UNCHANGED <<env, call, now, timers, mainVars, socket, teardowns, slot, cmds, exitVars,
                 lastActivity, connectTime, firstTrigger, drops,
                 trace>>

\* socket.on('connect') after a transport drop: connect()'s promise is
\* already resolved, so only the handler itself runs
Reconnect ==
  /\ Running /\ socket /\ transport = "connecting" /\ pc = "registered"
  /\ transport' = "connected"
  /\ reconnectAttempts' = 0
  /\ outbox' = Append(outbox, Register)
  /\ UNCHANGED <<env, call, now, timers, mainVars, socket, teardowns, slot, cmds, exitVars,
                 lastActivity, connectTime, firstTrigger, drops,
                 trace>>

\* variant: the comparison with the bound is strict
maxAttemptsReached_Strict(n) == n > maxReconnectAttempts

\* `this.reconnectAttempts >= this.maxReconnectAttempts`
maxAttemptsReached(n) == n >= maxReconnectAttempts

\* socket.on('connect_error') below the bound, or once connect() has resolved
\* (reject is then a no-op; socket.io gives up after its last attempt)
ConnectError ==
  /\ Running /\ socket /\ transport = "connecting"
  /\ reconnectAttempts < maxReconnectAttempts
  /\ ~maxAttemptsReached(reconnectAttempts + 1) \/ pc = "registered"
  /\ reconnectAttempts' = reconnectAttempts + 1
  /\ transport' = IF reconnectAttempts + 1 >= maxReconnectAttempts
                    THEN "closed" ELSE transport
  /\ UNCHANGED <<env, call, now, timers, mainVars, socket, teardowns, slot, cmds, outbox,
                 exitVars, lastActivity, connectTime, firstTrigger, drops,
                 trace>>

\* socket.on('connect_error') reaching the bound while main awaits connect():
\* reject, and main's catch block
ConnectFailed ==
  /\ Running /\ socket /\ transport = "connecting" /\ pc = "connect"
  /\ maxAttemptsReached(reconnectAttempts + 1)
  /\ reconnectAttempts' = reconnectAttempts + 1
  /\ exitWithError("agent_failed")
  /\ Trigger("connect_failed")
  /\ UNCHANGED <<env, call, now, timers, mainVars, socket, teardowns, transport, slot, cmds,
                 outbox, lastActivity, connectTime, drops,
                 trace>>

\* variant: a transport disconnect is reported to the critical-error callback
TransportDisconnect_Fatal ==
  /\ Connected
  /\ drops < MaxDrops
  /\ drops' = drops + 1
  /\ onCriticalError
  /\ Trigger("critical_error")
  /\ UNCHANGED <<env, call, now, mainVars, reconnectAttempts, slot, cmds, outbox,
                 lastActivity, connectTime, trace>>

\* socket.on('disconnect'): logged; socket.io starts reconnecting
TransportDisconnect ==
  /\ Connected
  /\ drops < MaxDrops
  /\ transport' = "connecting"
  /\ drops' = drops + 1
  /\ UNCHANGED <<env, call, now, timers, mainVars, socket, teardowns, reconnectAttempts, slot,
                 cmds, outbox, exitVars, lastActivity, connectTime, firstTrigger,
                 trace>>

\* socket.on('error'): logged
SocketError ==
  /\ Running /\ socket
  /\ UNCHANGED vars

\* ------------------------------------------------- command dispatch
\* variant: the switch has no default branch that names the failure
ErrorMessage_Generic(type) == <<"collaborator failed", type>>

\* error.message of the failure handleCommand catches
ErrorMessage(type) ==
  IF type \in KnownTypes THEN <<"collaborator failed", type>>
                         ELSE <<"Unknown command type", type>>

\* variant: the envelope built in the catch block lacks the commandId
handleCommandResponse_NoIdOnError(i, c, outcome) ==
  [event |-> "agent:response",
   commandId |-> IF outcome = "ok" THEN c.commandId ELSE "",
   success |-> (outcome = "ok"),
   error |-> IF outcome = "ok" THEN <<>> ELSE ErrorMessage(c.type),
   cmd |-> i]

\* the AgentResponse handleCommand builds for the i-th command received
handleCommandResponse(i, c, outcome) ==
  [event |-> "agent:response",
   commandId |-> c.commandId,
   success |-> (outcome = "ok"),
   error |-> IF outcome = "ok" THEN <<>> ELSE ErrorMessage(c.type),
   cmd |-> i]

\* this.socket?.emit(...)
emit(msg) == IF socket THEN Append(outbox, msg) ELSE outbox

\* variant: a command is received only when no handler is suspended
ReceiveCommandUpTo_Serialized(n) ==
  /\ Connected
  /\ Len(cmds) < n
  /\ \A j \in 1..Len(cmds) : cmds[j].status # "awaiting"
  /\ Len(cmds) < Len(CommandIds)
  /\ \E id \in {CommandIds[Len(cmds) + 1]}, type \in CommandTypes :
       LET i == Len(cmds) + 1
           c == [commandId |-> id, type |-> type,
                 status |-> IF type \in KnownTypes THEN "awaiting" ELSE "failed"]
       IN /\ cmds' = Append(cmds, c)
          /\ outbox' = IF type \in KnownTypes
                         THEN outbox
                         ELSE emit(handleCommandResponse(i, c, "error"))
  /\ Activity
  /\ UNCHANGED <<env, call, now, pc, reviewTimeout, reviewCompleted, publishes,
                 pendingPublish, waiters, socket, teardowns, transport, reconnectAttempts,
                 slot, exitVars, connectTime, firstTrigger, drops>>

\* socket.on('agent:command'): the activity notification, then handleCommand
\* up to its first await.  A known type suspends on its collaborator; any
\* other type throws in the switch, and the failed response is emitted at
\* once (no such type is in criticalCommands).
ReceiveCommandUpTo(n) ==
  /\ Connected
  /\ Len(cmds) < n
  /\ Len(cmds) < Len(CommandIds)
  /\ \E id \in {CommandIds[Len(cmds) + 1]}, type \in CommandTypes :
       LET i == Len(cmds) + 1
           c == [commandId |-> id, type |-> type,
                 status |-> IF type \in KnownTypes THEN "awaiting" ELSE "failed"]
       IN /\ cmds' = Append(cmds, c)
          /\ outbox' = IF type \in KnownTypes
                         THEN outbox
                         ELSE emit(handleCommandResponse(i, c, "error"))
  /\ Activity
  /\ UNCHANGED <<env, call, now, pc, reviewTimeout, reviewCompleted, publishes,
                 pendingPublish, waiters, socket, teardowns, transport, reconnectAttempts,
                 slot, exitVars, connectTime, firstTrigger, drops>>

ReceiveCommand == ReceiveCommandUpTo(MaxCommands)

\* the collaborator of a suspended command settles and handleCommand resumes:
\* it builds the response, calls the critical-error callback when a critical
\* command failed, and then emits the response
CompleteCommand ==
  /\ Running
  /\ \E i \in 1..Len(cmds), outcome \in Outcomes :
       LET c == cmds[i] IN
       /\ c.status = "awaiting"
       /\ cmds' = [cmds EXCEPT ![i].status =
                     IF outcome = "ok" THEN "succeeded" ELSE "failed"]
       /\ IF outcome = "error" /\ c.type \in criticalCommands
             /\ slot.criticalError = "main"
            THEN /\ onCriticalError
                 /\ Trigger("critical_error")
                 /\ UNCHANGED outbox
            ELSE /\ outbox' = emit(handleCommandResponse(i, c, outcome))
                 /\ UNCHANGED <<timers, socket, teardowns, transport, exitVars, firstTrigger>>
  /\ UNCHANGED <<env, call, now, mainVars, reconnectAttempts, slot, lastActivity,
                 connectTime, drops,
                 trace>>

\* ------------------------------------------------- other inbound messages
\* socket.on('agent:registered')
AgentRegistered ==
  /\ Connected
  /\ Activity
  /\ UNCHANGED <<env, call, now, pc, reviewTimeout, reviewCompleted, publishes,
                 pendingPublish, waiters, wsVars, exitVars, connectTime,
                 firstTrigger, drops>>

\* socket.on('agent:error')
AgentError ==
  /\ Connected
  /\ slot.criticalError = "main"
  /\ onCriticalError
  /\ Trigger("critical_error")
  /\ UNCHANGED <<env, call, now, mainVars, reconnectAttempts, slot, cmds, outbox,
                 lastActivity, connectTime, drops>>

\* variant: the publish promise that is kept is the first one started
startedPublish_KeepsFirst(pubs) ==
  IF pendingPublish = 0 THEN Len(pubs) + 1 ELSE pendingPublish

\* `pendingBitbucketPublish = (async () => {...})()`: the variable names the
\* publish just started
startedPublish(pubs) == Len(pubs) + 1

\* socket.on('review:findings'): the activity notification, then main's
\* findings callback, which starts a publish when a reporting service exists
ReviewFindingsUpTo(n) ==
  /\ Connected
  /\ slot.findings = "main"
  /\ Len(publishes) < n
  /\ Activity
  /\ IF env.publisher
       THEN /\ publishes' = Append(publishes, "running")
            /\ pendingPublish' = startedPublish(publishes)
       ELSE UNCHANGED <<publishes, pendingPublish>>
  /\ UNCHANGED <<env, call, now, pc, reviewTimeout, reviewCompleted, waiters, wsVars,
                 exitVars, connectTime, firstTrigger, drops>>

ReviewFindings == ReviewFindingsUpTo(MaxFindings)

\* socket.on('review:complete'): the activity notification, then main's
\* review-complete callback up to its await (or to process.exit when there
\* is nothing to wait for)
ReviewComplete ==
  /\ Connected
  /\ slot.reviewComplete = "main"
  /\ lastActivity' = now
  /\ reviewCompleted' = TRUE
  /\ Trigger("review_complete")
  /\ LET st == RunCalls(HandlerCalls("review:complete"),
                        [timers |-> timers, idle |-> idleTimeout])
     IN /\ idleTimeout' = st.idle
        /\ timers' = awaitPublish(st.timers, pendingPublish)
  /\ IF pendingPublish # 0 /\ publishes[pendingPublish] = "running"
       THEN /\ waiters' = waiters \cup {[pub |-> pendingPublish, since |-> now]}
            /\ UNCHANGED <<socket, teardowns, transport, exitVars>>
       ELSE /\ disconnect
            /\ ProcessExit(0, "review_complete")
            /\ UNCHANGED waiters
  /\ UNCHANGED <<env, call, now, pc, reviewTimeout, publishes, pendingPublish,
                 reconnectAttempts, slot, cmds, outbox, connectTime, drops>>

\* variant: the rejection of publishFindings is not caught
PublishSettles_FailureFatal ==
  /\ Running
  /\ \E p \in 1..Len(publishes), result \in {"ok", "failed"} :
       /\ publishes[p] = "running"
       /\ publishes' = [publishes EXCEPT ![p] = result]
       /\ IF \E w \in waiters : w.pub = p
            THEN /\ disconnect
                 /\ IF result = "failed"
                      THEN exitWithError("agent_failed")
                      ELSE ProcessExit(0, "review_complete")
            ELSE UNCHANGED <<socket, teardowns, transport, exitVars>>
  /\ UNCHANGED <<env, call, now, timers, pc, idleTimeout, reviewTimeout,
                 reviewCompleted, pendingPublish, waiters, reconnectAttempts,
                 slot, cmds, outbox, lastActivity, connectTime, firstTrigger, drops,
                 trace>>

\* publishFindings settles; the publish promise of main resolves either way
\* (its failure is caught and logged).  An onReviewComplete invocation that
\* awaits this publish resumes: disconnect and exit.
PublishSettles ==
  /\ Running
  /\ \E p \in 1..Len(publishes), result \in {"ok", "failed"} :
       /\ publishes[p] = "running"
       /\ publishes' = [publishes EXCEPT ![p] = result]
       /\ IF \E w \in waiters : w.pub = p
            THEN /\ disconnect
                 /\ ProcessExit(0, "review_complete")
            ELSE UNCHANGED <<socket, teardowns, transport, exitVars>>
  /\ UNCHANGED <<env, call, now, timers, pc, idleTimeout, reviewTimeout,
                 reviewCompleted, pendingPublish, waiters, reconnectAttempts,
                 slot, cmds, outbox, lastActivity, connectTime, firstTrigger, drops,
                 trace>>

\* ------------------------------------------------- timers and signals
\* the connectTimeout callback
ConnectTimeout ==
  /\ Running
  /\ \E t \in Due("connect") : timers' = timers \ {t}
  /\ exitWithError("connection_timeout")
  /\ Trigger("connection_timeout")
  /\ UNCHANGED <<env, call, now, mainVars, wsVars, lastActivity, connectTime, drops,
                 trace>>

\* variant: the idle callback exits without disconnecting
IdleTimeout_NoDisconnect ==
  /\ Running
  /\ \E t \in Due("idle") : timers' = timers \ {t}
  /\ exitWithError("idle_timeout")
  /\ Trigger("idle_timeout")
  /\ UNCHANGED <<env, call, now, mainVars, wsVars, lastActivity, connectTime, drops,
                 trace>>

\* the idleTimeout callback
IdleTimeout ==
  /\ Running
  /\ \E t \in Due("idle") : timers' = timers \ {t}
  /\ disconnect
  /\ exitWithError("idle_timeout")
  /\ Trigger("idle_timeout")
  /\ UNCHANGED <<env, call, now, mainVars, reconnectAttempts, slot, cmds, outbox,
                 lastActivity, connectTime, drops,
                 trace>>

\* the reviewTimeout callback
ReviewTimeout ==
  /\ Running
  /\ \E t \in Due("review") :
       IF ~reviewCompleted
         THEN /\ timers' = (timers \ {t}) \ Handles("idle", idleTimeout)
              /\ disconnect
              /\ exitWithError("review_timeout")
              /\ Trigger("review_timeout")
         ELSE /\ timers' = timers \ {t}
              /\ UNCHANGED <<socket, teardowns, transport, exitVars, firstTrigger>>
  /\ UNCHANGED <<env, call, now, mainVars, reconnectAttempts, slot, cmds, outbox,
                 lastActivity, connectTime, drops,
                 trace>>

\* the 30 s timer of the Promise.race in onReviewComplete: the race rejects,
\* the catch logs, and the callback goes on to disconnect and exit
PublishWaitTimeout ==
  /\ Running
  /\ \E t \in Due("publish") : timers' = timers \ {t}
  /\ disconnect
  /\ ProcessExit(0, "review_complete")
  /\ UNCHANGED <<env, call, now, mainVars, reconnectAttempts, slot, cmds, outbox,
                 lastActivity, connectTime, firstTrigger, drops,
                 trace>>

\* variant: the signal handlers leave through exitWithError
Signal_FatalPath ==
  /\ Running
  /\ pc = "registered"
  /\ timers' = (timers \ Handles("review", reviewTimeout)) \ Handles("idle", idleTimeout)
  /\ disconnect
  /\ exitWithError("signal")
  /\ Trigger("signal")
  /\ UNCHANGED <<env, call, now, mainVars, reconnectAttempts, slot, cmds, outbox,
                 lastActivity, connectTime, drops,
                 trace>>

\* process.on('SIGINT') / process.on('SIGTERM'), installed once connected
Signal ==
  /\ Running
  /\ pc = "registered"
  /\ timers' = (timers \ Handles("review", reviewTimeout)) \ Handles("idle", idleTimeout)
  /\ disconnect
  /\ ProcessExit(0, "signal")
  /\ Trigger("signal")
  /\ UNCHANGED <<env, call, now, mainVars, reconnectAttempts, slot, cmds, outbox,
                 lastActivity, connectTime, drops,
                 trace>>

\* The supervisor's runs over a transport that stays up once connected.  A
\* transport drop only disables the inbound messages for a while and adds an
\* agent:register to the outbox; ConnSpec adds the drops.
Next ==
  \/ Tick
  \/ Connect
  \/ ConnectError
  \/ ConnectFailed
  \/ ReceiveCommand /\ UNCHANGED trace
  \/ CompleteCommand
  \/ AgentRegistered /\ UNCHANGED trace
  \/ AgentError /\ UNCHANGED trace
  \/ ReviewFindings /\ UNCHANGED trace
  \/ ReviewComplete /\ UNCHANGED trace
  \/ PublishSettles
  \/ ConnectTimeout
  \/ IdleTimeout
  \/ ReviewTimeout
  \/ PublishWaitTimeout
  \/ Signal

Spec == Init /\ [][Next]_vars

ConnNext ==
  \/ Next
  \/ Reconnect
  \/ TransportDisconnect

ConnSpec == Init /\ [][ConnNext]_vars

\* ------------------------------------------------- the message level
\* The command dispatcher within one instant of the clock (no timer
\* expires): up to MaxInFlight commands in flight over a transport that
\* fails, drops and reconnects.
DispatchNext ==
  \/ Connect
  \/ ConnectError
  \/ ConnectFailed
  \/ Reconnect
  \/ TransportDisconnect
  \/ SocketError
  \/ ReceiveCommandUpTo(MaxInFlight) /\ UNCHANGED trace
  \/ CompleteCommand
  \/ AgentError /\ UNCHANGED trace
  \/ Signal

DispatchSpec == Init /\ [][DispatchNext]_vars

\* The inbound handlers within one instant of the clock, with the record of
\* what each handler called.
Traced(msg) == trace' = [msg |-> msg, calls |-> HandlerCalls(msg)]

InboundNext ==
  \/ Connect
  \/ ReceiveCommand /\ Traced("agent:command")
  \/ CompleteCommand
  \/ AgentRegistered /\ Traced("agent:registered")
  \/ AgentError /\ Traced("agent:error")
  \/ ReviewFindings /\ Traced("review:findings")
  \/ ReviewComplete /\ Traced("review:complete")
  \/ PublishSettles

InboundSpec == Init /\ [][InboundNext]_vars

\* The publishes within one instant of the clock: up to MaxPublishes findings
\* messages around review:complete, each starting a publish that settles at
\* any later moment.
PublishNext ==
  \/ Connect
  \/ ReviewFindingsUpTo(MaxPublishes) /\ UNCHANGED trace
  \/ ReviewComplete /\ UNCHANGED trace
  \/ PublishSettles
  \/ AgentError /\ UNCHANGED trace
  \/ Signal

PublishSpec == Init /\ [][PublishNext]_vars

\* ------------------------------------------------- the service's caller
\* the state before main calls connect(): the services are constructed and
\* the WebSocketService has no socket yet
Constructed ==
  /\ env \in [FAIL_SAFE : BOOLEAN, publisher : BOOLEAN]
  /\ now = 0
  /\ timers = {Timer("connect", CONNECTION_TIMEOUT)}
  /\ pc = "connect"
  /\ idleTimeout = {}
  /\ reviewTimeout = {}
  /\ reviewCompleted = FALSE
  /\ publishes = <<>>
  /\ pendingPublish = 0
  /\ waiters = {}
  /\ socket = FALSE
  /\ transport = "none"
  /\ reconnectAttempts = 0
  /\ slot = [reviewComplete |-> "null", activity |-> "null",
             criticalError |-> "null", findings |-> "null"]
  /\ cmds = <<>>
  /\ outbox = <<>>
  /\ exited = FALSE
  /\ exitCodes = <<>>
  /\ exitReason = "none"
  /\ lastActivity = 0
  /\ connectTime = 0
  /\ firstTrigger = "none"
  /\ drops = 0
  /\ teardowns = 0
  /\ trace = [msg |-> "none", calls |-> <<>>]

\* WebSocketService under a caller that may call disconnect() at any moment
\* and go on running: before connect() (no socket yet), while connecting,
\* when connected, and again after a disconnect().
ServiceInit ==
  /\ Constructed
  /\ call = [fn |-> "none", arg |-> <<>>, done |-> FALSE, out |-> <<>>]

\* connect() up to the return of its promise: `this.socket = io(...)`
CallConnect ==
  /\ Running /\ ~socket /\ transport = "none"
  /\ socket' = TRUE
  /\ transport' = "connecting"
  /\ UNCHANGED <<env, call, now, timers, mainVars, teardowns, reconnectAttempts, slot,
                 cmds, outbox, exitVars, lastActivity, connectTime,
                 firstTrigger, drops, trace>>

\* a call of disconnect() that is not followed by process.exit()
CallDisconnect ==
  /\ Running
  /\ disconnect
  /\ UNCHANGED <<env, call, now, timers, mainVars, reconnectAttempts, slot, cmds,
                 outbox, exitVars, lastActivity, connectTime, firstTrigger,
                 drops, trace>>

\* variant: sendFindings emits on the transport without looking at the socket
CallSendFindings_NoGuard ==
  /\ Running
  /\ Len(call.arg) < MaxFindings
  /\ outbox' = Append(outbox, FindingsMessage)
  /\ call' = [call EXCEPT !.fn = "sendFindings",
                          !.arg = Append(@, "findings"),
                          !.out = Append(@, teardowns)]
  /\ UNCHANGED <<env, now, timers, mainVars, socket, teardowns, transport,
                 reconnectAttempts, slot, cmds, exitVars, lastActivity,
                 connectTime, firstTrigger, drops, trace>>

\* a call of sendFindings(findings); call.arg lists the calls made and
\* call.out the number of disconnects that preceded each
CallSendFindings ==
  /\ Running
  /\ Len(call.arg) < MaxFindings
  /\ outbox' = emit(FindingsMessage)
  /\ call' = [call EXCEPT !.fn = "sendFindings",
                          !.arg = Append(@, "findings"),
                          !.out = Append(@, teardowns)]
  /\ UNCHANGED <<env, now, timers, mainVars, socket, teardowns, transport,
                 reconnectAttempts, slot, cmds, exitVars, lastActivity,
                 connectTime, firstTrigger, drops, trace>>

ServiceNext ==
  \/ DispatchNext
  \/ CallConnect
  \/ CallDisconnect

ServiceSpec == ServiceInit /\ [][ServiceNext]_vars

\* The outbound side of the service under such a caller: commands are
\* received and completed, and the caller sends findings, before and after
\* its disconnect().
SendNext ==
  \/ CallConnect
  \/ Connect
  \/ ReceiveCommand /\ UNCHANGED trace
  \/ CompleteCommand
  \/ CallSendFindings
  \/ CallDisconnect

SendSpec == ServiceInit /\ [][SendNext]_vars

\* ------------------------------------------------- callback slots
\* WebSocketService under a caller that registers the callbacks "f" and "g"
\* in any order, any number of times: call.arg is the sequence of the
\* registrations made so far, each <<slot, callback>>.
\* A payload is the set of its <<path, leaf>> pairs: a string has the empty
\* path, an object one pair for each field, an array one pair for each index.
Str(s) == {<<"", s>>}
Obj(error, message) == {<<"error", error>>, <<"message", message>>}
Get(data, field) == {<<"", p[2]>> : p \in {q \in data : q[1] = field}}

\* variant: a slot that is taken keeps its callback
setCallback_KeepFirst(s, kind, callback) ==
  IF s[kind] = "null" THEN [s EXCEPT ![kind] = callback] ELSE s

\* onReviewComplete, onActivity, onCriticalError, onFindings
setCallback(s, kind, callback) == [s EXCEPT ![kind] = callback]

RegisterCallback ==
  /\ Running
  /\ Len(call.arg) < MaxRegistrations
  /\ \E kind \in DOMAIN slot, callback \in {"f", "g"} :
       /\ slot' = setCallback(slot, kind, callback)
       /\ call' = [call EXCEPT !.fn = "register",
                               !.arg = Append(call.arg, <<kind, callback>>)]
  /\ UNCHANGED <<env, now, timers, mainVars, socket, teardowns, transport,
                 reconnectAttempts, cmds, outbox, exitVars, lastActivity,
                 connectTime, firstTrigger, drops, trace>>

\* socket.on('connect') under this caller: register the agent
SocketConnect ==
  /\ Running /\ socket /\ transport = "connecting"
  /\ transport' = "connected"
  /\ reconnectAttempts' = 0
  /\ outbox' = Append(outbox, Register)
  /\ UNCHANGED <<env, call, now, timers, mainVars, socket, teardowns, slot,
                 cmds, exitVars, lastActivity, connectTime, firstTrigger,
                 drops, trace>>

\* `if (this.xCallback) this.xCallback(args)`
Invoke(s, kind, args) ==
  IF s[kind] = "null" THEN <<>>
  ELSE <<[cb |-> s[kind], slot |-> kind, args |-> args]>>

\* the callbacks the handler of an inbound event invokes, with their arguments
Invocations(s, msg, data) ==
  CASE msg = "agent:registered" -> Invoke(s, "activity", <<>>)
    [] msg = "review:complete"  ->
         Invoke(s, "activity", <<>>) \o Invoke(s, "reviewComplete", <<>>)
    [] msg = "review:findings"  ->
         Invoke(s, "activity", <<>>) \o Invoke(s, "findings", <<data>>)
    [] msg = "agent:error"      ->
         Invoke(s, "criticalError", <<Get(data, "error")>>)

Payloads(msg) ==
  CASE msg = "agent:registered" -> {Str("ack")}
    [] msg = "review:complete"  -> {{}}
    [] msg = "review:findings"  -> {{}, {<<"0", "finding">>}}
    [] msg = "agent:error"      -> {Obj("AUTH", "denied"), Obj("QUOTA", "exceeded")}

Deliver(msg) ==
  /\ Connected
  /\ \E data \in Payloads(msg) :
       trace' = [msg |-> msg, data |-> data,
                 calls |-> Invocations(slot, msg, data)]
  /\ UNCHANGED <<env, call, now, timers, mainVars, wsVars, exitVars,
                 lastActivity, connectTime, firstTrigger, drops>>

SlotNext ==
  \/ RegisterCallback
  \/ CallConnect
  \/ SocketConnect
  \/ Deliver("agent:registered")
  \/ Deliver("review:complete")
  \/ Deliver("review:findings")
  \/ Deliver("agent:error")

SlotSpec == ServiceInit /\ [][SlotNext]_vars

\* ------------------------------------------------- the diff parser
\* Text is a sequence of lines and a line a sequence of one-character
\* strings, so that the regular expression is matched character by character.
Digits == <<"0", "1", "2", "3", "4", "5", "6", "7", "8", "9">>
IsDigit(c) == \E d \in 1..Len(Digits) : Digits[d] = c
DigitValue(c) == (CHOOSE d \in 1..Len(Digits) : Digits[d] = c) - 1

\* parseInt of a non-empty string of decimal digits
RECURSIVE parseInt(_)
parseInt(ds) ==
  IF Len(ds) = 1 THEN DigitValue(ds[1])
  ELSE 10 * parseInt(SubSeq(ds, 1, Len(ds) - 1)) + DigitValue(ds[Len(ds)])

\* where the longest run of digits that starts at position i of line ends
\* (the position after its last digit): what a greedy \d+ or \d* consumes
DigitsEnd(line, i) ==
  CHOOSE j \in i..(Len(line) + 1) :
    /\ \A k \in i..(j - 1) : IsDigit(line[k])
    /\ j = Len(line) + 1 \/ ~IsDigit(line[j])

\* line has the literal lit at position i
Literal(line, i, lit) ==
  /\ i + Len(lit) - 1 <= Len(line)
  /\ SubSeq(line, i, i + Len(lit) - 1) = lit

\* position i, moved past a comma if there is one: `,?`
SkipComma(line, i) ==
  IF i <= Len(line) /\ line[i] = "," THEN i + 1 ELSE i

\* line.match(/^@@ -(\d+),?(\d*) \+(\d+),?(\d*) @@/): whether it matches and
\* the four groups
hunkMatch(line) ==
  LET s1 == 5
      e1 == DigitsEnd(line, s1)
      s2 == SkipComma(line, e1)
      e2 == DigitsEnd(line, s2)
      s3 == e2 + 2
      e3 == DigitsEnd(line, s3)
      s4 == SkipComma(line, e3)
      e4 == DigitsEnd(line, s4)
      ok == /\ Literal(line, 1, <<"@", "@", " ", "-">>)
            /\ e1 > s1
            /\ Literal(line, e2, <<" ", "+">>)
            /\ e3 > s3
            /\ Literal(line, e4, <<" ", "@", "@">>)
  IN IF ok
       THEN [matched |-> TRUE,
             g1 |-> SubSeq(line, s1, e1 - 1), g2 |-> SubSeq(line, s2, e2 - 1),
             g3 |-> SubSeq(line, s3, e3 - 1), g4 |-> SubSeq(line, s4, e4 - 1)]
       ELSE [matched |-> FALSE, g1 |-> <<>>, g2 |-> <<>>, g3 |-> <<>>, g4 |-> <<>>]

\* variant: the default is applied to the parsed number, parseInt(g) || 1
countOrOne_ZeroIsAbsent(g) ==
  IF g = <<>> THEN 1 ELSE IF parseInt(g) = 0 THEN 1 ELSE parseInt(g)

\* variant: an omitted count is read as 0
countOrOne_Zero(g) == IF g = <<>> THEN 0 ELSE parseInt(g)

\* parseInt(hunkMatch[k] || '1')
countOrOne(g) == IF g = <<>> THEN parseInt(<<"1">>) ELSE parseInt(g)

\* variant: a new header replaces the open hunk without pushing it
hunkStep_NoPush(st, line) ==
  LET m == hunkMatch(line) IN
  IF m.matched
    THEN [hunks |-> st.hunks,
          currentHunk |-> <<[oldStart |-> parseInt(m.g1),
                             oldLines |-> countOrOne(m.g2),
                             newStart |-> parseInt(m.g3),
                             newLines |-> countOrOne(m.g4),
                             lines |-> <<>>]>>]
    ELSE IF st.currentHunk # <<>>
      THEN [st EXCEPT !.currentHunk[1].lines = Append(@, line)]
      ELSE st

\* variant: a content line is stored without its leading marker
hunkStep_StripMarker(st, line) ==
  LET m == hunkMatch(line) IN
  IF m.matched
    THEN [hunks |-> st.hunks \o st.currentHunk,
          currentHunk |-> <<[oldStart |-> parseInt(m.g1),
                             oldLines |-> countOrOne(m.g2),
                             newStart |-> parseInt(m.g3),
                             newLines |-> countOrOne(m.g4),
                             lines |-> <<>>]>>]
    ELSE IF st.currentHunk # <<>>
      THEN [st EXCEPT !.currentHunk[1].lines =
              Append(@, IF line = <<>> THEN line ELSE Tail(line))]
      ELSE st

\* the body of the loop of parseDiffHunks; currentHunk is <<>> for null or
\* holds the open hunk
hunkStep(st, line) ==
  LET m == hunkMatch(line) IN
  IF m.matched
    THEN [hunks |-> st.hunks \o st.currentHunk,
          currentHunk |-> <<[oldStart |-> parseInt(m.g1),
                             oldLines |-> countOrOne(m.g2),
                             newStart |-> parseInt(m.g3),
                             newLines |-> countOrOne(m.g4),
                             lines |-> <<>>]>>]
    ELSE IF st.currentHunk # <<>>
      THEN [st EXCEPT !.currentHunk[1].lines = Append(@, line)]
      ELSE st

RECURSIVE hunkLoop(_, _)
hunkLoop(st, lines) ==
  IF lines = <<>> THEN st ELSE hunkLoop(hunkStep(st, Head(lines)), Tail(lines))

\* GitService.parseDiffHunks on the lines of diffText
parseDiffHunks(lines) ==
  LET st == hunkLoop([hunks |-> <<>>, currentHunk |-> <<>>], lines)
  IN st.hunks \o st.currentHunk

\* the lines the texts are drawn from: headers with both counts, without the
\* old one, without the new one, without either, with a section name behind,
\* with a count of 0 on the old side (an added file) and on the new side (a
\* deleted file);
\* content lines; two lines that look like a header but do not match; and
\* the empty line (diffText.split('\n') has at least one line, and a last
\* empty one when the text ends with a newline)
H_Full == <<"@", "@", " ", "-", "1", ",", "3", " ", "+", "1", ",", "4", " ", "@", "@">>
H_NoOld == <<"@", "@", " ", "-", "5", " ", "+", "5", ",", "2", " ", "@", "@">>
H_NoNew == <<"@", "@", " ", "-", "5", ",", "2", " ", "+", "5", " ", "@", "@">>
H_Neither == <<"@", "@", " ", "-", "5", " ", "+", "5", " ", "@", "@">>
H_Section == <<"@", "@", " ", "-", "1", "0", ",", "0", " ", "+", "1", "1", " ", "@", "@", " ", "f">>
H_AddedFile == <<"@", "@", " ", "-", "0", ",", "0", " ", "+", "1", ",", "3", " ", "@", "@">>
H_DeletedFile == <<"@", "@", " ", "-", "1", ",", "3", " ", "+", "0", ",", "0", " ", "@", "@">>
L_Added == <<"+", "x">>
L_Context == <<" ", "x">>
L_Indented == <<" ", "@", "@", " ", "-", "1", " ", "+", "1", " ", "@", "@">>
L_NoDigits == <<"@", "@", " ", "-", "a", " ", "+", "b", " ", "@", "@">>
L_Empty == <<>>
SampleLines == {H_Full, H_NoOld, H_NoNew, H_Neither, H_Section,
                H_AddedFile, H_DeletedFile, L_Added, L_Context, L_Indented, L_NoDigits, L_Empty}

SeqsUpTo(S, n) == UNION {[1..k -> S] : k \in 0..n}

\* parseDiffHunks reads no configuration: one environment is enough
ParserInit ==
  /\ Constructed
  /\ env = [FAIL_SAFE |-> FALSE, publisher |-> FALSE]
  /\ \E text \in SeqsUpTo(SampleLines, MaxLines) \ {<<>>} :
       call = [fn |-> "parseDiffHunks", arg |-> text, done |-> FALSE, out |-> <<>>]

ParseDiff ==
  /\ call.fn = "parseDiffHunks" /\ ~call.done
  /\ call' = [call EXCEPT !.done = TRUE, !.out = parseDiffHunks(call.arg)]
  /\ UNCHANGED <<env, now, timers, mainVars, wsVars, exitVars, lastActivity,
                 connectTime, firstTrigger, drops, trace>>

ParserSpec == ParserInit /\ [][ParseDiff]_vars

\* ------------------------------------------------- getDiff
\* The diff summary: the changed files in git's order, each with its path
\* (the position in the summary), the binary flag, and what `git diff -- path`
\* does for it (the text, or a failure); the totals are those of the texts.
L_Removed == <<"-", "y">>
L_Binary == <<"B", "i", "n", "a", "r", "y">>
RawDiffs == {<<>>, <<H_Full, L_Added>>, <<H_NoOld, L_Removed>>,
             <<H_Full, L_Removed, L_Added>>}

SummaryFiles ==
  {[binary |-> TRUE, raw |-> <<L_Binary>>, fails |-> fl] : fl \in BOOLEAN}
    \cup {[binary |-> FALSE, raw |-> <<>>, fails |-> TRUE]}
    \cup {[binary |-> FALSE, raw |-> r, fails |-> FALSE] : r \in RawDiffs}

\* the number of lines of the files' texts that start with the sign
Changed(files, sign) ==
  Cardinality({p \in (1..Len(files)) \X (1..MaxLines) :
                 /\ p[2] <= Len(files[p[1]].raw)
                 /\ Len(files[p[1]].raw[p[2]]) > 0
                 /\ files[p[1]].raw[p[2]][1] = sign})

diffSummary(files) ==
  [files |-> [k \in 1..Len(files) |->
                [file |-> k, binary |-> files[k].binary, raw |-> files[k].raw,
                 fails |-> files[k].fails]],
   insertions |-> Changed(files, "+"),
   deletions |-> Changed(files, "-")]

\* variant: the test for 'deleted' is missing
diffStatus_NoDeleted(summary) ==
  IF summary.insertions > 0 /\ summary.deletions = 0 THEN "added"
  ELSE "modified"

\* `status` of a FileDiff: from the totals of the summary
diffStatus(summary) ==
  IF summary.insertions > 0 /\ summary.deletions = 0 THEN "added"
  ELSE IF summary.deletions > 0 /\ summary.insertions = 0 THEN "deleted"
  ELSE "modified"

\* variant: a binary file is not skipped
diffStep_KeepBinary(st, summary, file) ==
  IF ~st.ok \/ file.fails THEN [ok |-> FALSE, diffs |-> <<>>]
  ELSE [ok |-> TRUE,
        diffs |-> Append(st.diffs, [path |-> file.file,
                                    status |-> diffStatus(summary),
                                    hunks |-> parseDiffHunks(file.raw)])]

\* the body of the loop over diffSummary.files; a rejected git.diff makes
\* getDiff throw
diffStep(st, summary, file) ==
  IF ~st.ok \/ file.fails THEN [ok |-> FALSE, diffs |-> <<>>]
  ELSE IF file.binary THEN st
  ELSE [ok |-> TRUE,
        diffs |-> Append(st.diffs, [path |-> file.file,
                                    status |-> diffStatus(summary),
                                    hunks |-> parseDiffHunks(file.raw)])]

RECURSIVE diffLoop(_, _, _)
diffLoop(st, summary, k) ==
  IF k > Len(summary.files) THEN st
  ELSE diffLoop(diffStep(st, summary, summary.files[k]), summary, k + 1)

getDiff(summary) == diffLoop([ok |-> TRUE, diffs |-> <<>>], summary, 1)

DiffInit ==
  /\ Constructed
  /\ \E files \in SeqsUpTo(SummaryFiles, MaxFiles) :
       call = [fn |-> "getDiff", arg |-> diffSummary(files),
               done |-> FALSE, out |-> <<>>]

GetDiff ==
  /\ call.fn = "getDiff" /\ ~call.done
  /\ call' = [call EXCEPT !.done = TRUE, !.out = getDiff(call.arg)]
  /\ UNCHANGED <<env, now, timers, mainVars, wsVars, exitVars, lastActivity,
                 connectTime, firstTrigger, drops, trace>>

DiffSpec == DiffInit /\ [][GetDiff]_vars

\* ------------------------------------------------- readFile
\* An optional number is <<>> (undefined) or <<n>>.  A file of n lines is
\* the sequence <<1, ..., n>>: each line is named by its number.
Max(a, b) == IF a >= b THEN a ELSE b
Min(a, b) == IF a <= b THEN a ELSE b

\* `x || d` for an optional number x: undefined and 0 are falsy
OrElse(x, d) == IF x = <<>> \/ x = <<0>> THEN d ELSE x[1]

\* Array.prototype.slice(start, end): a negative index counts from the end
slice(lines, start, end) ==
  LET len == Len(lines)
      from == IF start < 0 THEN Max(len + start, 0) ELSE Min(start, len)
      to == IF end < 0 THEN Max(len + end, 0) ELSE Min(end, len)
  IN SubSeq(lines, from + 1, to)

\* FileSystemService.readFile: the lines returned, or the error thrown when
\* the file cannot be accessed
readFile(file, startLine, endLine) ==
  IF ~file.exists THEN [ok |-> FALSE, lines |-> <<>>]
  ELSE IF startLine # <<>> \/ endLine # <<>>
    THEN [ok |-> TRUE,
          lines |-> slice(file.lines, OrElse(startLine, 1) - 1,
                          OrElse(endLine, Len(file.lines)))]
    ELSE [ok |-> TRUE, lines |-> file.lines]

Files == {[exists |-> e, lines |-> [k \in 1..n |-> k]] :
            e \in BOOLEAN, n \in 1..MaxFileLines}
LineArgs == {<<>>} \cup {<<v>> : v \in (0 - MaxFileLines)..(2 * MaxFileLines)}

ReadInit ==
  /\ Constructed
  /\ \E f \in Files, startLine \in LineArgs, endLine \in LineArgs :
       call = [fn |-> "readFile",
               arg |-> [file |-> f, startLine |-> startLine, endLine |-> endLine],
               done |-> FALSE, out |-> <<>>]

ReadFile ==
  /\ call.fn = "readFile" /\ ~call.done
  /\ call' = [call EXCEPT !.done = TRUE,
                          !.out = readFile(call.arg.file, call.arg.startLine,
                                           call.arg.endLine)]
  /\ UNCHANGED <<env, now, timers, mainVars, wsVars, exitVars, lastActivity,
                 connectTime, firstTrigger, drops, trace>>

ReadSpec == ReadInit /\ [][ReadFile]_vars

\* ------------------------------------------------- search
\* A line is a sequence of characters; the pattern is a literal without
\* regular-expression metacharacters.  glob() returns the files in a fixed
\* order; a file is named by its position in that order.
lower(c) == IF c = "A" THEN "a" ELSE IF c = "B" THEN "b" ELSE c

\* the 0-based indexes >= from at which the pattern occurs in the line,
\* ignoring case (flag i)
Occurrences(line, pattern, from) ==
  {i \in from..(Len(line) - Len(pattern)) :
     \A j \in 1..Len(pattern) : lower(line[i + j]) = lower(pattern[j])}

\* RegExp.prototype.test of a global (flag g) expression: the search starts
\* at lastIndex, a match leaves lastIndex behind it, a failure resets it
test(lastIndex, pattern, line) ==
  LET found == Occurrences(line, pattern, lastIndex)
  IN IF found = {} THEN [matched |-> FALSE, lastIndex |-> 0]
     ELSE LET i == CHOOSE x \in found : \A y \in found : x <= y
          IN [matched |-> TRUE, lastIndex |-> i + Len(pattern)]

\* String.prototype.trim
trim(line) ==
  LET ink == {i \in 1..Len(line) : line[i] # " "}
  IN IF ink = {} THEN <<>>
     ELSE SubSeq(line, CHOOSE x \in ink : \A y \in ink : x <= y,
                       CHOOSE x \in ink : \A y \in ink : x >= y)

\* the body of lines.forEach: st = [lastIndex, results]
searchLine(st, pattern, file, index, line) ==
  LET t == test(st.lastIndex, pattern, line)
  IN [lastIndex |-> t.lastIndex,
      results |-> IF t.matched
                    THEN Append(st.results, [file |-> file, line |-> index,
                                             content |-> trim(line)])
                    ELSE st.results]

RECURSIVE searchLines(_, _, _, _, _)
searchLines(st, pattern, file, lines, index) ==
  IF index > Len(lines) THEN st
  ELSE searchLines(searchLine(st, pattern, file, index, lines[index]),
                   pattern, file, lines, index + 1)

\* the loop over the files: a file that cannot be read is skipped
RECURSIVE searchFiles(_, _, _, _)
searchFiles(st, pattern, files, k) ==
  IF k > Len(files) THEN st
  ELSE searchFiles(IF files[k].readable
                     THEN searchLines(st, pattern, k, files[k].lines, 1)
                     ELSE st,
                   pattern, files, k + 1)

\* FileSystemService.search: one RegExp for the whole call
search(pattern, files) ==
  searchFiles([lastIndex |-> 0, results |-> <<>>], pattern, files, 1).results

SearchLines == {<<>>, <<"a">>, <<" ", "a">>, <<"A", "b">>, <<"b">>}
SearchPatterns == {<<"a">>, <<"a", "b">>}
SearchFiles ==
  {[readable |-> FALSE, lines |-> <<>>]} \cup
  {[readable |-> TRUE, lines |-> l] :
     l \in SeqsUpTo(SearchLines, MaxSearchLines) \ {<<>>}}

SearchInit ==
  /\ Constructed
  /\ \E pattern \in SearchPatterns, f1 \in SearchFiles,
        rest \in {<<>>} \cup {<<f2>> : f2 \in SearchFiles} :
       call = [fn |-> "search",
               arg |-> [pattern |-> pattern, files |-> <<f1>> \o rest],
               done |-> FALSE, out |-> <<>>]

Search ==
  /\ call.fn = "search" /\ ~call.done
  /\ call' = [call EXCEPT !.done = TRUE,
                          !.out = search(call.arg.pattern, call.arg.files)]
  /\ UNCHANGED <<env, now, timers, mainVars, wsVars, exitVars, lastActivity,
                 connectTime, firstTrigger, drops, trace>>

SearchSpec == SearchInit /\ [][Search]_vars

\* ------------------------------------------------- generatePrUrl
\* A string is a sequence of tokens (characters where a pattern is matched on
\* it), so that a template literal is a concatenation; an optional string is
\* <<>> (undefined) or <<s>>.  The empty string <<<<>>>> is falsy.
Truthy(v) == v # <<>> /\ v[1] # <<>>

RefsPull == <<"r", "e", "f", "s", "/", "p", "u", "l", "l", "/">>

\* ref.match(/refs\/pull\/(\d+)\//): <<>> for null, else <<group 1>> of the
\* leftmost match
prMatch(ref) ==
  LET starts == {i \in 1..Len(ref) :
                   LET d == i + Len(RefsPull)
                   IN /\ Literal(ref, i, RefsPull)
                      /\ DigitsEnd(ref, d) > d
                      /\ Literal(ref, DigitsEnd(ref, d), <<"/">>)}
  IN IF starts = {} THEN <<>>
     ELSE LET i == CHOOSE x \in starts : \A y \in starts : x <= y
              d == i + Len(RefsPull)
          IN <<SubSeq(ref, d, DigitsEnd(ref, d) - 1)>>

\* process.env.GITHUB_REF?.match(...)
refMatch(e) == IF e.GITHUB_REF = <<>> THEN <<>> ELSE prMatch(e.GITHUB_REF[1])

bitbucketUrl(e) ==
  IF ~Truthy(e.BITBUCKET_PR_ID) THEN <<>>
  ELSE IF Truthy(e.BITBUCKET_GIT_HTTP_ORIGIN)
    THEN <<e.BITBUCKET_GIT_HTTP_ORIGIN[1] \o <<"/pull-requests/">>
             \o e.BITBUCKET_PR_ID[1]>>
  ELSE IF Truthy(e.BITBUCKET_WORKSPACE) /\ Truthy(e.BITBUCKET_REPO_SLUG)
    THEN <<<<"https://bitbucket.org/">> \o e.BITBUCKET_WORKSPACE[1] \o <<"/">>
             \o e.BITBUCKET_REPO_SLUG[1] \o <<"/pull-requests/">>
             \o e.BITBUCKET_PR_ID[1]>>
  ELSE <<>>

\* variant: the Bitbucket variables are looked at first
generatePrUrl_BitbucketFirst(e) ==
  IF bitbucketUrl(e) # <<>> THEN bitbucketUrl(e)
  ELSE IF /\ Truthy(e.GITHUB_SERVER_URL) /\ Truthy(e.GITHUB_REPOSITORY)
          /\ refMatch(e) # <<>>
    THEN <<e.GITHUB_SERVER_URL[1] \o <<"/">> \o e.GITHUB_REPOSITORY[1]
             \o <<"/pull/">> \o refMatch(e)[1]>>
  ELSE <<>>

\* WebSocketService.generatePrUrl: <<>> for undefined, else <<url>>
generatePrUrl(e) ==
  IF /\ Truthy(e.GITHUB_SERVER_URL) /\ Truthy(e.GITHUB_REPOSITORY)
     /\ refMatch(e) # <<>>
    THEN <<e.GITHUB_SERVER_URL[1] \o <<"/">> \o e.GITHUB_REPOSITORY[1]
             \o <<"/pull/">> \o refMatch(e)[1]>>
  ELSE bitbucketUrl(e)

R_Pull == RefsPull \o <<"1", "2", "/", "m">>
R_NoSlash == RefsPull \o <<"1", "2">>
R_NoNumber == RefsPull \o <<"/", "m">>
R_Branch == <<"r", "e", "f", "s", "/", "h", "e", "a", "d", "s", "/", "m">>
Optional(S) == {<<>>} \cup {<<s>> : s \in S}

PrUrlEnvs ==
  [GITHUB_SERVER_URL : Optional({<<>>, <<"https://github.com">>}),
   GITHUB_REPOSITORY : Optional({<<"owner/repo">>}),
   GITHUB_REF : Optional({R_Pull, R_NoSlash, R_NoNumber, R_Branch}),
   BITBUCKET_PR_ID : Optional({<<>>, <<"7">>}),
   BITBUCKET_GIT_HTTP_ORIGIN : Optional({<<>>, <<"https://bitbucket.org/w/r">>}),
   BITBUCKET_WORKSPACE : Optional({<<"w">>}),
   BITBUCKET_REPO_SLUG : Optional({<<"r">>})]

\* generatePrUrl reads the CI variables only: one supervisor environment
PrUrlInit ==
  /\ Constructed
  /\ env = [FAIL_SAFE |-> FALSE, publisher |-> FALSE]
  /\ \E e \in PrUrlEnvs :
       call = [fn |-> "generatePrUrl", arg |-> e, done |-> FALSE, out |-> <<>>]

\* a call of generatePrUrl; call.out collects the results of the calls
GeneratePrUrl ==
  /\ call.fn = "generatePrUrl"
  /\ Len(call.out) < MaxCalls
  /\ call' = [call EXCEPT !.done = TRUE,
                          !.out = Append(@, generatePrUrl(call.arg))]
  /\ UNCHANGED <<env, now, timers, mainVars, wsVars, exitVars, lastActivity,
                 connectTime, firstTrigger, drops, trace>>

PrUrlSpec == PrUrlInit /\ [][GeneratePrUrl]_vars

\* ------------------------------------------------- GitHubService.publishFindings
\* The requests publishFindings sends to the checks API, in order.  A finding
\* is [id, severity]; an annotation keeps the id of its finding.
annotationsPerRequest == 50
Severities == {"critical", "error", "warning", "info"}

annotationLevel(severity) ==
  CASE severity \in {"critical", "error"} -> "failure"
    [] severity = "warning" -> "warning"
    [] OTHER -> "notice"

findingsToAnnotations(findings) ==
  [i \in 1..Len(findings) |->
     [id |-> findings[i].id, level |-> annotationLevel(findings[i].severity)]]

\* chunkArray(array, size): no chunk for the empty array
chunkArray(array, size) ==
  [c \in 1..((Len(array) + size - 1) \div size) |->
     SubSeq(array, (c - 1) * size + 1, Min(c * size, Len(array)))]

\* the POST of createCheckRun(name, 'in_progress')
createCheckRun ==
  [method |-> "POST", status |-> "in_progress", conclusion |-> "none",
   annotations |-> <<>>]

\* the PATCH requests of updateCheckRun: one for each batch of annotations
updateCheckRun(conclusion, annotations) ==
  LET annotationBatches == chunkArray(annotations, annotationsPerRequest)
  IN [i \in 1..Len(annotationBatches) |->
        [method |-> "PATCH", status |-> "completed", conclusion |-> conclusion,
         annotations |-> annotationBatches[i]]]

conclusionOf(findings) ==
  IF \E i \in 1..Len(findings) : findings[i].severity \in {"critical", "error"}
    THEN "failure" ELSE "success"

\* publishFindings when the failAt-th request is answered with an error (0:
\* none is) and a pull request is found or not: the check-run requests sent,
\* whether the promise resolves, and the number of review comments posted
publishFindings(findings, failAt, pr) ==
  LET all == <<createCheckRun>>
               \o updateCheckRun(conclusionOf(findings),
                                 findingsToAnnotations(findings))
  IN IF failAt \in 1..Len(all)
       THEN [ok |-> FALSE, requests |-> SubSeq(all, 1, failAt), comments |-> 0]
       ELSE [ok |-> TRUE, requests |-> all,
             comments |-> IF pr THEN Len(findings) ELSE 0]

\* lists of n findings, all of severity info but possibly the k-th
FindingsList(n, k, severity) ==
  [i \in 1..n |-> [id |-> i, severity |-> IF i = k THEN severity ELSE "info"]]

FindingsLists ==
  {FindingsList(n, k, sv) :
     n \in 0..MaxFindingsLen, k \in {0, 1, MaxFindingsLen}, sv \in Severities}

\* publishFindings reads no supervisor configuration: one environment
GitHubInit ==
  /\ Constructed
  /\ env = [FAIL_SAFE |-> FALSE, publisher |-> TRUE]
  /\ \E findings \in FindingsLists, failAt \in 0..3, pr \in BOOLEAN :
       call = [fn |-> "publishFindings",
               arg |-> [findings |-> findings, failAt |-> failAt, pr |-> pr],
               done |-> FALSE, out |-> <<>>]

PublishFindings ==
  /\ call.fn = "publishFindings" /\ ~call.done
  /\ call' = [call EXCEPT !.done = TRUE,
                          !.out = publishFindings(call.arg.findings,
                                                  call.arg.failAt, call.arg.pr)]
  /\ UNCHANGED <<env, now, timers, mainVars, wsVars, exitVars, lastActivity,
                 connectTime, firstTrigger, drops, trace>>

GitHubSpec == GitHubInit /\ [][PublishFindings]_vars

\* ------------------------------------------------ branches of a review
\* registerAgent: the branches announced in the Registration
registerAgent(e) ==
  IF e.GITHUB_ACTIONS = <<<<"true">>>>
    THEN [op |-> "agent:register",
          sourceBranch |-> IF Truthy(e.GITHUB_HEAD_REF)
                             THEN e.GITHUB_HEAD_REF[1] ELSE <<>>,
          destinationBranch |-> IF Truthy(e.GITHUB_BASE_REF)
                                  THEN e.GITHUB_BASE_REF[1] ELSE <<"main">>]
    ELSE [op |-> "agent:register",
          sourceBranch |-> IF Truthy(e.BITBUCKET_BRANCH)
                             THEN e.BITBUCKET_BRANCH[1] ELSE <<>>,
          destinationBranch |-> IF Truthy(e.BITBUCKET_PR_DESTINATION_BRANCH)
                                  THEN e.BITBUCKET_PR_DESTINATION_BRANCH[1]
                                  ELSE <<"main">>]

\* GitService.getDiff: the range origin/destBranch...sourceBranch it diffs
diffRange(e) ==
  [op |-> "get_diff",
   sourceBranch |-> IF Truthy(e.BITBUCKET_BRANCH)
                      THEN e.BITBUCKET_BRANCH[1] ELSE <<"HEAD">>,
   destinationBranch |-> IF Truthy(e.BITBUCKET_PR_DESTINATION_BRANCH)
                           THEN e.BITBUCKET_PR_DESTINATION_BRANCH[1]
                           ELSE <<"main">>]

BranchEnvs ==
  [GITHUB_ACTIONS : Optional({<<"true">>, <<"false">>}),
   GITHUB_HEAD_REF : Optional({<<>>, <<"feature">>}),
   GITHUB_BASE_REF : Optional({<<>>, <<"develop">>}),
   BITBUCKET_BRANCH : Optional({<<>>, <<"feature">>}),
   BITBUCKET_PR_DESTINATION_BRANCH : Optional({<<>>, <<"develop">>})]

\* one environment for the whole run, read by both services
BranchInit ==
  /\ Constructed
  /\ env = [FAIL_SAFE |-> FALSE, publisher |-> FALSE]
  /\ \E e \in BranchEnvs :
       call = [fn |-> "branches", arg |-> e, done |-> FALSE, out |-> <<>>]

\* the connect handler registers the agent; call.out collects what was
\* announced and what was diffed
RegisterBranches ==
  /\ call.fn = "branches"
  /\ Len(call.out) < MaxCalls
  /\ call' = [call EXCEPT !.out = Append(@, registerAgent(call.arg))]
  /\ UNCHANGED <<env, now, timers, mainVars, wsVars, exitVars, lastActivity,
                 connectTime, firstTrigger, drops, trace>>

\* a get_diff command, after a registration
DiffBranches ==
  /\ call.fn = "branches"
  /\ Len(call.out) < MaxCalls
  /\ \E i \in 1..Len(call.out) : call.out[i].op = "agent:register"
  /\ call' = [call EXCEPT !.done = TRUE,
                          !.out = Append(@, diffRange(call.arg))]
  /\ UNCHANGED <<env, now, timers, mainVars, wsVars, exitVars, lastActivity,
                 connectTime, firstTrigger, drops, trace>>

BranchSpec == BranchInit /\ [][RegisterBranches \/ DiffBranches]_vars

\* ------------------------------------------------------------ claims
FatalCode == IF env.FAIL_SAFE THEN 0 ELSE 1
Live == pc = "registered" /\ Running
Pending(kind) == {t \in timers : t.kind = kind}
Responses == {k \in 1..Len(outbox) : outbox[k].event = "agent:response"}

\* the exit path each terminal trigger leads to when it is the one that wins
PathOf(trigger) ==
  IF trigger = "connect_failed" THEN "agent_failed" ELSE trigger

\* process.exit() is called at most once, and exited records it
ExitOnce ==
  /\ Len(exitCodes) <= 1
  /\ exited <=> Len(exitCodes) = 1
  /\ exited <=> exitReason # "none"

\* C1: a run emits exactly one exit code and the first terminal trigger
\* (connect timeout, connect failure, idle expiry, review-timeout expiry,
\* critical error, review-complete, signal) is the one that decides it.
C1_FirstTriggerWins ==
  /\ ExitOnce
  /\ exited => exitReason = PathOf(firstTrigger)

\* C2: every fatal path exits 0 under FAIL_SAFE and 1 otherwise, and no run
\* exits with a code other than 0 or 1.
C2_FatalExitCode ==
  /\ \A k \in 1..Len(exitCodes) : exitCodes[k] \in {0, 1}
  /\ exited /\ exitReason \in FatalReasons => exitCodes = <<FatalCode>>

C2_Witness ==
  /\ exited /\ exitReason = "idle_timeout"
  /\ env.FAIL_SAFE /\ exitCodes = <<0>>

\* C3: the pending idle deadline is always the latest activity (or connect)
\* plus IDLE_TIMEOUT, it is pending as long as the session is live, and the
\* watchdog fires only IDLE_TIMEOUT after the latest activity, so activity
\* signals less than IDLE_TIMEOUT apart keep it from firing for ever.
C3_IdleReset ==
  /\ \A t \in Pending("idle") : t.at = lastActivity + IDLE_TIMEOUT
  /\ Live /\ ~reviewCompleted => Pending("idle") # {}
  /\ exitReason = "idle_timeout" => now >= lastActivity + IDLE_TIMEOUT

C3_Witness ==
  /\ Live /\ ~reviewCompleted
  /\ now - connectTime > IDLE_TIMEOUT
  /\ lastActivity > connectTime

\* C4: a live session never outlasts IDLE_TIMEOUT without an inbound message:
\* at that moment the watchdog fires, disconnects and exits through the fatal
\* path.
C4_IdleExpiry ==
  /\ Live /\ ~reviewCompleted => now <= lastActivity + IDLE_TIMEOUT
  /\ exitReason = "idle_timeout" =>
       /\ exited /\ ~socket
       /\ exitCodes = <<FatalCode>>
       /\ now = lastActivity + IDLE_TIMEOUT

C4_Witness ==
  /\ exitReason = "idle_timeout"
  /\ lastActivity = connectTime /\ cmds = <<>> /\ publishes = <<>>
  /\ ~env.FAIL_SAFE /\ exitCodes = <<1>>

\* C5: the review-timeout is armed when connect succeeds, for connect time +
\* REVIEW_TIMEOUT, and its deadline never moves; a live session whose review
\* has not completed never outlasts it, its expiry exits through the fatal
\* path, and once review-complete was received it is no longer pending.
C5_ReviewDeadline ==
  /\ pc = "registered" => reviewTimeout = {connectTime + REVIEW_TIMEOUT}
  /\ \A t \in Pending("review") : t.at = connectTime + REVIEW_TIMEOUT
  /\ Live /\ ~reviewCompleted =>
       /\ Pending("review") # {}
       /\ now <= connectTime + REVIEW_TIMEOUT
  /\ reviewCompleted => Pending("review") = {}
  /\ exitReason = "review_timeout" =>
       /\ ~reviewCompleted /\ ~socket
       /\ now = connectTime + REVIEW_TIMEOUT
       /\ exitCodes = <<FatalCode>>

C5_Witness ==
  /\ exitReason = "review_timeout"
  /\ lastActivity > connectTime

\* C6: once review:complete has been received the run exits with code 0,
\* whatever happens while the supervisor waits for the publish.
C6_CompleteExitsZero ==
  reviewCompleted /\ exited => exitCodes = <<0>>

\* C7: from review:complete on, neither the idle watchdog nor the
\* review-timeout is pending, and neither ends the run.
C7_NoTimerAfterComplete ==
  reviewCompleted =>
    /\ Pending("idle") = {} /\ Pending("review") = {}
    /\ exitReason \notin {"idle_timeout", "review_timeout"}

\* C8: an onReviewComplete invocation waits only while its publish is still
\* running and at most PUBLISH_TIMEOUT; when the publish settles or the bound
\* elapses it disconnects and exits 0, the publish being left as it is; with
\* no pending publish it disconnects and exits at once.
C8_BoundedPublishWait ==
  /\ Running => \A w \in waiters :
       /\ publishes[w.pub] = "running"
       /\ Timer("publish", w.since + PUBLISH_TIMEOUT) \in timers
       /\ now <= w.since + PUBLISH_TIMEOUT
  /\ reviewCompleted /\ Running => waiters # {}
  /\ reviewCompleted /\ pendingPublish = 0 => exited
  /\ exitReason = "review_complete" => ~socket /\ exitCodes = <<0>>

C8_Witness ==
  /\ exitReason = "review_complete"
  /\ \E w \in waiters : /\ publishes[w.pub] = "running"
                        /\ now = w.since + PUBLISH_TIMEOUT

\* C9: a failed get_diff is answered with an agent:response carrying
\* success=false and its commandId, and the run ends through the
\* critical-error path.
C9_FailedDiffAnswered ==
  \A i \in 1..Len(cmds) :
    cmds[i].type = "get_diff" /\ cmds[i].status = "failed" =>
      /\ exitReason = "critical_error"
      /\ \E k \in Responses : /\ outbox[k].cmd = i
                              /\ outbox[k].commandId = cmds[i].commandId
                              /\ ~outbox[k].success

C11_ExactlyOneResponse ==
  \A i \in 1..Len(cmds) :
    LET answers == {k \in Responses : outbox[k].commandId = cmds[i].commandId}
    IN /\ Cardinality(answers) <= 1
       /\ cmds[i].status \in {"succeeded", "failed"} => Cardinality(answers) = 1

\* C12: commands are not serialized: a command is received while the handlers
\* of earlier ones are suspended, any suspended handler may be the next to
\* finish, so that responses leave in any order; each response answers one
\* command and carries that command's commandId.
C12_NotSerialized ==
  /\ Connected /\ Len(cmds) < MaxInFlight => ENABLED ReceiveCommandUpTo(MaxInFlight)
  /\ Running /\ (\E i \in 1..Len(cmds) : cmds[i].status = "awaiting")
       => ENABLED CompleteCommand
  /\ \A k \in Responses :
       /\ outbox[k].commandId = cmds[outbox[k].cmd].commandId
       /\ \A l \in Responses : l # k => outbox[l].commandId # outbox[k].commandId

\* the second command is answered while the first is still suspended
C12_Witness ==
  /\ Len(cmds) = 2
  /\ cmds[1].status = "awaiting"
  /\ \E k \in Responses : outbox[k].cmd = 2 /\ outbox[k].commandId = cmds[2].commandId

\* C13: the failure of a command other than get_diff (an unknown type
\* included) is local to the command: the step in which it fails emits its
\* failed response and nothing else, does not exit or run the critical-error
\* path, and leaves the lifecycle state, the review-timeout and the
\* connection as they were.
C13_NonCriticalFailureLocal ==
  [][\A i \in 1..Len(cmds') :
       (/\ cmds'[i].status = "failed"
        /\ cmds'[i].type # "get_diff"
        /\ (i > Len(cmds) \/ cmds[i].status = "awaiting"))
       => /\ outbox' = Append(outbox,
                          [event |-> "agent:response",
                           commandId |-> cmds'[i].commandId,
                           success |-> FALSE,
                           error |-> ErrorMessage(cmds'[i].type),
                           cmd |-> i])
          /\ UNCHANGED <<exitVars, firstTrigger, pc, reviewCompleted,
                         reviewTimeout, socket, teardowns, transport,
                         reconnectAttempts, slot>>
          /\ {t \in timers' : t.kind = "review"} = Pending("review")
    ]_vars

\* a command is served after an earlier one has failed
C13_Witness ==
  /\ Running /\ Len(cmds) = 2
  /\ cmds[1].type = "read_file" /\ cmds[1].status = "failed"
  /\ cmds[2].status = "succeeded"
  /\ \E k, l \in Responses :
       /\ k < l
       /\ outbox[k].cmd = 1 /\ ~outbox[k].success
       /\ outbox[l].cmd = 2 /\ outbox[l].success

\* C14: an inbound agent:error is fatal: it is handled whenever the session
\* is connected, and its step cancels the review-timeout and the idle
\* watchdog, disconnects and exits through the fatal path at once (exit 1,
\* or 0 under FAIL_SAFE), with no reconnection or retry.
C14_AgentErrorFatal ==
  /\ [](Connected => ENABLED AgentError)
  /\ [][
     /\ AgentError =>
          /\ exited' /\ exitReason' = "critical_error"
          /\ exitCodes' = <<FatalCode>>
          /\ ~socket' /\ transport' = "closed"
          /\ \A t \in timers' : t.kind \notin {"idle", "review"}
          /\ reconnectAttempts' = reconnectAttempts
    ]_vars

\* agent:error ended a run in which no command was ever received and the
\* idle watchdog had been re-armed by earlier messages
C14_Witness ==
  /\ exitReason = "critical_error"
  /\ cmds = <<>>
  /\ lastActivity > connectTime
  /\ ~env.FAIL_SAFE /\ exitCodes = <<1>>

\* C15: the handler of an agent:command, agent:registered, review:findings
\* or review:complete message notifies activity exactly once, and before it
\* dispatches the command or calls the findings or review-complete callback;
\* so the idle watchdog that review:complete re-arms is the one its callback
\* cancels.
C15_ActivityFirst ==
  /\ trace.msg \in {"agent:command", "agent:registered", "review:findings",
                    "review:complete"} =>
       /\ Len(trace.calls) >= 1
       /\ trace.calls[1] = "activity"
       /\ \A k \in 2..Len(trace.calls) : trace.calls[k] # "activity"
  /\ trace.msg = "agent:command" => trace.calls = <<"activity", "handleCommand">>
  /\ trace.msg = "agent:registered" => trace.calls = <<"activity">>
  /\ trace.msg = "review:findings" => trace.calls = <<"activity", "findings">>
  /\ trace.msg = "review:complete" =>
       /\ trace.calls = <<"activity", "reviewComplete">>
       /\ idleTimeout = {lastActivity + IDLE_TIMEOUT}
       /\ Pending("idle") = {}

\* review:complete was handled and its callback waits for the publish
C15_Witness ==
  /\ trace.msg = "review:complete"
  /\ Running /\ waiters # {}
  /\ Pending("idle") = {}

\* C16: connect() resolves in the step in which the transport reports
\* connected, with the registration emitted first and no agent:registered
\* needed; from that step on the connect-timeout is cancelled, the callbacks
\* are set, and the idle watchdog and the review-timeout are armed, so the
\* session is live whether or not an acknowledgment arrives.
C16_LiveOnConnect ==
  /\ transport = "connected" => pc = "registered"
  /\ pc = "registered" =>
       /\ outbox # <<>> /\ outbox[1] = Register
       /\ Pending("connect") = {}
       /\ exitReason \notin {"connection_timeout", "agent_failed"}
       /\ \A f \in DOMAIN slot : slot[f] = "main"
       /\ reviewTimeout = {connectTime + REVIEW_TIMEOUT}
  /\ pc = "connect" =>
       /\ outbox = <<>>
       /\ Pending("idle") = {} /\ Pending("review") = {}
  /\ Live /\ ~reviewCompleted /\ lastActivity = connectTime =>
       /\ Timer("idle", connectTime + IDLE_TIMEOUT) \in timers
       /\ Timer("review", connectTime + REVIEW_TIMEOUT) \in timers

\* a session that has received nothing since it connected is live, with
\* exactly the idle watchdog and the review-timeout pending
C16_Witness ==
  /\ Live /\ now > connectTime
  /\ lastActivity = connectTime /\ cmds = <<>> /\ publishes = <<>>
  /\ timers = {Timer("idle", connectTime + IDLE_TIMEOUT),
               Timer("review", connectTime + REVIEW_TIMEOUT)}

\* C17: connect() fails with the 5th connection error that occurs before a
\* successful connect and not earlier; a successful connect resets the error
\* counter to 0; the failure, like the expiry of the connect-timeout before
\* connect succeeds, takes the supervisor from Connecting to Terminated
\* through the fatal path.
C17_ConnectFails ==
  /\ pc = "connect" /\ Running => reconnectAttempts < maxReconnectAttempts
  /\ pc = "connect" /\ reconnectAttempts >= maxReconnectAttempts =>
       exited /\ exitReason = "agent_failed"
  /\ exitReason = "agent_failed" =>
       /\ pc = "connect" /\ exited
       /\ reconnectAttempts = maxReconnectAttempts
       /\ exitCodes = <<FatalCode>>
  /\ exitReason = "connection_timeout" =>
       /\ pc = "connect" /\ exited
       /\ now >= CONNECTION_TIMEOUT
       /\ exitCodes = <<FatalCode>>
  /\ transport = "connected" => reconnectAttempts = 0

\* the 5th error ended a run that was still connecting
C17_Witness ==
  /\ exitReason = "agent_failed"
  /\ reconnectAttempts = maxReconnectAttempts
  /\ pc = "connect" /\ outbox = <<>>

Registrations(o) == {k \in 1..Len(o) : o[k].event = "agent:register"}

\* C18: the step in which the transport reports connected emits one
\* agent:register and nothing else, so the registration precedes every
\* response emitted on that connection and the first message of a run is a
\* registration; no other step emits an agent:register, and there are as
\* many registrations as connected signals.
C18_RegisterPerConnect ==
  [][/\ (transport # "connected" /\ transport' = "connected") =>
          outbox' = Append(outbox, Register)
     /\ Registrations(outbox') # Registrations(outbox) =>
          /\ transport # "connected" /\ transport' = "connected"
          /\ outbox' = Append(outbox, Register)
     /\ outbox' # <<>> => outbox'[1] = Register
     /\ transport' = "connected" =>
          Cardinality(Registrations(outbox')) = drops' + 1
    ]_vars

\* a response on the first connection, a drop, the second registration, and
\* a response on the second connection
C18_Witness ==
  /\ drops = 1 /\ transport = "connected"
  /\ Cardinality(Registrations(outbox)) = 2
  /\ \E k, l \in Responses, m \in Registrations(outbox) : 1 < k /\ k < m /\ m < l

\* C19: disconnect() can be called in every state and never ends the run; a
\* call that finds a socket tears it down once and clears it, a call that
\* finds none (before connect(), or after an earlier disconnect()) changes
\* nothing, so a second call leaves the state of the first and a connection
\* is torn down at most once.
C19_DisconnectIdempotent ==
  /\ [](Running => ENABLED CallDisconnect)
  /\ [][
     /\ CallDisconnect =>
          /\ ~socket'
          /\ IF socket
               THEN teardowns' = teardowns + 1 /\ transport' = "closed"
               ELSE UNCHANGED vars
     /\ teardowns' <= 1
     /\ transport' = "none" => teardowns' = 0
    ]_vars

\* a connected session was disconnected and runs on without a socket
C19_Witness ==
  /\ Running /\ pc = "registered"
  /\ ~socket /\ transport = "closed" /\ teardowns = 1

\* C20: SIGINT or SIGTERM is handled at any moment after connect has
\* succeeded, before or after review:complete; its step cancels the
\* review-timeout and the idle watchdog, disconnects and exits with code 0,
\* whatever FAIL_SAFE is.
C20_SignalExitsZero ==
  /\ [](Live => ENABLED Signal)
  /\ [][
     /\ Signal =>
          /\ pc = "registered"
          /\ exited' /\ exitReason' = "signal"
          /\ exitCodes' = <<0>>
          /\ ~socket' /\ transport' = "closed"
          /\ \A t \in timers' : t.kind \notin {"idle", "review"}
    ]_vars

\* a signal ended a run without FAIL_SAFE that was waiting for its publish
\* after review:complete, with code 0
C20_Witness ==
  /\ exitReason = "signal"
  /\ reviewCompleted /\ waiters # {}
  /\ ~env.FAIL_SAFE /\ exitCodes = <<0>>

\* C21: when the run has exited, by whatever path, no timer is pending:
\* connect-timeout, idle watchdog, review-timeout and publish-wait timeout
\* have each fired or been cancelled before process.exit().
C21_NoTimerAtExit ==
  exited => timers = {}

\* C22: the step in which a publish fails does what the step in which it
\* succeeds does: it ends the run only if onReviewComplete waits for this
\* publish, then with code 0 through the review-complete path, and it is no
\* terminal trigger of its own; the exit code of a run never depends on the
\* result of a publish.
C22_PublishFailureHarmless ==
  [][\A p \in 1..Len(publishes) :
       (publishes[p] = "running" /\ publishes'[p] \in {"ok", "failed"}) =>
         /\ firstTrigger' = firstTrigger
         /\ IF \E w \in waiters : w.pub = p
              THEN /\ exited' /\ exitReason' = "review_complete"
                   /\ exitCodes' = <<0>>
              ELSE UNCHANGED exitVars
    ]_vars

\* a run without FAIL_SAFE exits 0 when the publish it waits for fails
C22_Witness ==
  /\ exitReason = "review_complete" /\ exitCodes = <<0>>
  /\ ~env.FAIL_SAFE
  /\ \E w \in waiters : publishes[w.pub] = "failed"

\* C23: exhausting the reconnection attempts is fatal in every state, also
\* after connect() has succeeded: once the error counter has reached its
\* bound the run has ended through the connection-failure path.
C23_ExhaustionFatal ==
  reconnectAttempts >= maxReconnectAttempts =>
    exited /\ exitReason = "agent_failed"

\* C30: a transport 'disconnect', a transport 'error' and a connection error
\* after connect() has resolved are not fatal by themselves: their steps call
\* no callback and leave the lifecycle state, the idle watchdog, the
\* review-timeout and the callback slots as they were.
C30_TransportEventsLocal ==
  [][(\/ drops' = drops + 1
      \/ pc = "registered" /\ reconnectAttempts' = reconnectAttempts + 1
      \/ SocketError)
     => UNCHANGED <<exitVars, firstTrigger, pc, reviewCompleted, timers,
                    idleTimeout, reviewTimeout, slot, lastActivity, trace,
                    socket, teardowns, publishes, pendingPublish, waiters,
                    cmds, outbox>>
    ]_vars

\* the session is still live, with both timers pending, after a transport
\* drop followed by as many connection errors as socket.io reports
C30_Witness ==
  /\ Live /\ drops = 1
  /\ reconnectAttempts = maxReconnectAttempts
  /\ Pending("idle") # {} /\ Pending("review") # {}
  /\ \A f \in DOMAIN slot : slot[f] = "main"

IsHeader(line) == hunkMatch(line).matched
Headers(text) == SelectSeq(text, IsHeader)

\* C24: the parser returns as many hunks as the text has lines matching the
\* header pattern, in the order of these lines, the k-th hunk with the
\* oldStart and newStart of the k-th header; a text without a header gives
\* the empty sequence.
C24_HunkPerHeader ==
  call.fn = "parseDiffHunks" /\ call.done =>
    /\ Len(call.out) = Len(Headers(call.arg))
    /\ \A k \in 1..Len(call.out) :
         /\ call.out[k].oldStart = parseInt(hunkMatch(Headers(call.arg)[k]).g1)
         /\ call.out[k].newStart = parseInt(hunkMatch(Headers(call.arg)[k]).g3)
    /\ (\A i \in 1..Len(call.arg) : call.arg[i] \notin
          {H_Full, H_NoOld, H_NoNew, H_Neither, H_Section, H_AddedFile,
           H_DeletedFile}) => call.out = <<>>
    /\ call.arg = <<H_Section, L_Added, H_Full>> =>
         /\ Len(call.out) = 2
         /\ call.out[1].oldStart = 10 /\ call.out[1].newStart = 11
         /\ call.out[2].oldStart = 1 /\ call.out[2].newStart = 1

\* two headers with a content line between them gave two hunks
C24_Witness ==
  /\ call.done
  /\ call.arg = <<H_NoOld, L_Context, H_Full>>
  /\ Len(call.out) = 2
  /\ call.out[1].oldStart = 5 /\ call.out[2].oldStart = 1

\* C25: a header without a count is a header, and the side without a count
\* has length 1: `@@ -5 +5,2 @@` gives oldStart 5, oldLines 1, newStart 5,
\* newLines 2; likewise for the new side alone and for both sides.
C25_OmittedCountIsOne ==
  call.fn = "parseDiffHunks" /\ call.done =>
    \A k \in 1..Len(Headers(call.arg)) :
      LET h == Headers(call.arg)[k]
          r == [oldStart |-> call.out[k].oldStart, oldLines |-> call.out[k].oldLines,
                newStart |-> call.out[k].newStart, newLines |-> call.out[k].newLines]
      IN /\ k <= Len(call.out)
         /\ h = H_NoOld =>
              r = [oldStart |-> 5, oldLines |-> 1, newStart |-> 5, newLines |-> 2]
         /\ h = H_NoNew =>
              r = [oldStart |-> 5, oldLines |-> 2, newStart |-> 5, newLines |-> 1]
         /\ h = H_Neither =>
              r = [oldStart |-> 5, oldLines |-> 1, newStart |-> 5, newLines |-> 1]
         /\ h = H_Full =>
              r = [oldStart |-> 1, oldLines |-> 3, newStart |-> 1, newLines |-> 4]
         /\ h = H_Section =>
              r = [oldStart |-> 10, oldLines |-> 0, newStart |-> 11, newLines |-> 1]

\* `@@ -5 +5,2 @@` was parsed
C25_Witness ==
  /\ call.done
  /\ call.arg = <<H_NoOld>>
  /\ Len(call.out) = 1
  /\ call.out[1].oldLines = 1 /\ call.out[1].newLines = 2

\* C26: with a line range, read_file returns the lines of the file whose
\* numbers lie in [startLine, endLine] and in 1..lineCount, in order, for
\* every startLine and endLine (a bound that is not given does not limit the
\* range): bounds outside the file clamp to it.
C26_RangeClamped ==
  (/\ call.fn = "readFile" /\ call.done
   /\ call.arg.file.exists
   /\ call.arg.startLine # <<>> \/ call.arg.endLine # <<>>) =>
    LET n == Len(call.arg.file.lines)
        first == IF call.arg.startLine = <<>> THEN 1
                 ELSE Max(call.arg.startLine[1], 1)
        last == IF call.arg.endLine = <<>> THEN n
                ELSE Min(call.arg.endLine[1], n)
    IN /\ call.out.ok
       /\ call.out.lines = [k \in 1..Max(last - first + 1, 0) |-> first + k - 1]

\* C27: search reports exactly the lines of the files read that contain the
\* pattern, ignoring case, each once as {file, 1-indexed line, trimmed
\* content}, in file order then line order; whether a line is reported
\* depends on that line alone.
C27_EveryMatchingLine ==
  (call.fn = "search" /\ call.done) =>
    LET files == call.arg.files
        out == call.out
    IN /\ \A k \in 1..Len(files) : \A i \in 1..Len(files[k].lines) :
            files[k].readable =>
              (Occurrences(files[k].lines[i], call.arg.pattern, 0) # {}
                 <=> \E r \in 1..Len(out) :
                       out[r] = [file |-> k, line |-> i,
                                 content |-> trim(files[k].lines[i])])
       /\ \A r, q \in 1..Len(out) :
            r < q => \/ out[r].file < out[q].file
                     \/ out[r].file = out[q].file /\ out[r].line < out[q].line

\* the callback the last registration for a slot named, "null" if none
LastRegistered(log, kind) ==
  LET at == {i \in 1..Len(log) : log[i][1] = kind}
  IN IF at = {} THEN "null"
     ELSE log[CHOOSE i \in at : \A j \in at : j <= i][2]

\* the slots an inbound event of a kind concerns
Concerns(msg) ==
  CASE msg = "agent:registered" -> {"activity"}
    [] msg = "review:complete"  -> {"activity", "reviewComplete"}
    [] msg = "review:findings"  -> {"activity", "findings"}
    [] msg = "agent:error"      -> {"criticalError"}

CallsOf(calls, kind) == {i \in 1..Len(calls) : calls[i].slot = kind}

\* C28 as stated: an inbound event invokes the callback registered last for
\* its kind, and only that one, with the received payload unchanged; this
\* holds for the payloads of both kinds that carry one (findings and
\* critical-error).
C28_PayloadUnchanged ==
  [][trace' # trace =>
       \A i \in 1..Len(trace'.calls) :
         /\ trace'.calls[i].cb = LastRegistered(call.arg, trace'.calls[i].slot)
         /\ trace'.calls[i].slot \in {"findings", "criticalError"}
              => trace'.calls[i].args = <<trace'.data>>]_vars

\* C28 (amended): every slot holds the callback of the last registration for
\* it, so a registration leaves the other slots unchanged; an inbound event
\* invokes, for each slot it concerns that is taken, the holder of that slot
\* once and nothing else: the findings callback with the received payload
\* unchanged, the critical-error callback with the error field of the
\* payload only, the activity and review-complete callbacks without argument.
C28_LastRegistrationWins ==
  /\ [](call.fn \in {"none", "register"}
          => \A kind \in DOMAIN slot : slot[kind] = LastRegistered(call.arg, kind))
  /\ [][trace' # trace =>
          LET calls == trace'.calls
          IN /\ \A kind \in DOMAIN slot :
                  Cardinality(CallsOf(calls, kind)) =
                    IF kind \in Concerns(trace'.msg) /\ slot[kind] # "null"
                      THEN 1 ELSE 0
             /\ \A i \in 1..Len(calls) :
                  /\ calls[i].cb = LastRegistered(call.arg, calls[i].slot)
                  /\ calls[i].args =
                       CASE calls[i].slot = "findings" -> <<trace'.data>>
                         [] calls[i].slot = "criticalError" ->
                              <<Str(CHOOSE e \in {"AUTH", "QUOTA"} :
                                      <<"error", e>> \in trace'.data)>>
                         [] OTHER -> <<>>]_vars

C28_Witness ==
  /\ call.fn = "register"
  /\ \E i, j \in 1..Len(call.arg) :
       /\ i < j
       /\ call.arg[i] = <<"findings", "f">>
       /\ call.arg[j] = <<"findings", "g">>
  /\ trace.msg = "review:findings"
  /\ trace.calls = <<[cb |-> "g", slot |-> "findings",
                      args |-> <<{<<"0", "finding">>}>>]>>

NotBinary(file) == ~file.binary

\* C29: the result of get_diff holds exactly one FileDiff for each changed
\* file that is not binary, in the order of the diff summary, and none for a
\* binary file.
C29_NoBinaryFileDiff ==
  (call.fn = "getDiff" /\ call.done /\ call.out.ok) =>
    LET kept == SelectSeq(call.arg.files, NotBinary)
        diffs == call.out.diffs
    IN /\ Len(diffs) = Len(kept)
       /\ \A i \in 1..Len(diffs) : diffs[i].path = kept[i].file

C29_Witness ==
  /\ call.fn = "getDiff" /\ call.done /\ call.out.ok
  /\ Len(call.arg.files) >= 2
  /\ call.arg.files[1].binary
  /\ ~call.arg.files[2].binary
  /\ Len(call.out.diffs) = 1
  /\ call.out.diffs[1].path = 2
  /\ call.out.diffs[1].hunks # <<>>

\* C31: a command whose type is none of read_file, get_diff, search,
\* list_files, get_dependencies (run_check included) is answered in the step
\* that receives it with a failed response carrying its commandId and the
\* "Unknown command type" error, and the critical-error callback does not
\* run: nothing exits and no terminal trigger is recorded.
C31_UnknownTypeFails ==
  [][(Len(cmds') = Len(cmds) + 1 /\ cmds'[Len(cmds')].type \notin KnownTypes)
       => LET i == Len(cmds')
          IN /\ outbox' = Append(outbox,
                            [event |-> "agent:response",
                             commandId |-> cmds'[i].commandId,
                             success |-> FALSE,
                             error |-> <<"Unknown command type", cmds'[i].type>>,
                             cmd |-> i])
             /\ UNCHANGED <<exitVars, firstTrigger, socket, teardowns>>
    ]_vars

C31_Witness ==
  /\ Running
  /\ \E i \in 1..Len(cmds) :
       /\ cmds[i].type = "run_check"
       /\ cmds[i].status = "failed"
       /\ \E k \in Responses :
            /\ outbox[k].cmd = i
            /\ outbox[k].commandId = cmds[i].commandId
            /\ ~outbox[k].success
            /\ outbox[k].error[1] = "Unknown command type"

\* the positions of the header lines of a text, and the k-th of a set of
\* positions
HeaderAt(text) == {i \in 1..Len(text) : IsHeader(text[i])}
Kth(S, k) == CHOOSE i \in S : Cardinality({j \in S : j < i}) = k - 1
NotHeader(line) == ~IsHeader(line)

RECURSIVE AllHunkLines(_)
AllHunkLines(hunks) ==
  IF hunks = <<>> THEN <<>> ELSE Head(hunks).lines \o AllHunkLines(Tail(hunks))

\* C32: the lines before the first header are discarded; the k-th hunk holds,
\* verbatim and in order, the lines between the k-th header and the next
\* header (or the end of the text); so the hunks' lines, concatenated, are
\* the non-header lines of the text after its first header.
C32_LinesToNearestHeader ==
  (call.fn = "parseDiffHunks" /\ call.done) =>
    LET text == call.arg
        at == HeaderAt(text)
        n == Cardinality(at)
        pos == [k \in 1..n |-> Kth(at, k)]
    IN /\ Len(call.out) = n
       /\ \A k \in 1..n :
            call.out[k].lines =
              SubSeq(text, pos[k] + 1,
                     IF k < n THEN pos[k + 1] - 1 ELSE Len(text))
       /\ AllHunkLines(call.out) =
            IF n = 0 THEN <<>>
            ELSE SelectSeq(SubSeq(text, pos[1] + 1, Len(text)), NotHeader)

C32_Witness ==
  /\ call.fn = "parseDiffHunks" /\ call.done
  /\ call.arg = <<L_Context, H_Full, L_Added>>
  /\ Len(call.out) = 1
  /\ call.out[1].lines = <<L_Added>>

\* C37: a count that the header gives is parsed as given, 0 included
\* (`@@ -0,0 +1,3 @@` has oldLines 0 and newLines 3, `@@ -1,3 +0,0 @@` has
\* newLines 0); the count is 1 only when the header does not give it.
C37_ExplicitZeroCount ==
  (call.fn = "parseDiffHunks" /\ call.done) =>
    LET hs == Headers(call.arg)
    IN /\ Len(call.out) = Len(hs)
       /\ \A k \in 1..Len(hs) :
            LET m == hunkMatch(hs[k])
            IN /\ call.out[k].oldLines = IF m.g2 = <<>> THEN 1 ELSE parseInt(m.g2)
               /\ call.out[k].newLines = IF m.g4 = <<>> THEN 1 ELSE parseInt(m.g4)
               /\ hs[k] = H_AddedFile =>
                    /\ call.out[k].oldStart = 0 /\ call.out[k].oldLines = 0
                    /\ call.out[k].newStart = 1 /\ call.out[k].newLines = 3
               /\ hs[k] = H_DeletedFile =>
                    /\ call.out[k].oldLines = 3
                    /\ call.out[k].newStart = 0 /\ call.out[k].newLines = 0

C37_Witness ==
  /\ call.fn = "parseDiffHunks" /\ call.done
  /\ call.arg = <<H_AddedFile, L_Added, H_NoOld>>
  /\ Len(call.out) = 2
  /\ call.out[1].oldLines = 0
  /\ call.out[2].oldLines = 1

\* the pull-request number of the refs sampled, read off by hand
PullNumberOf(ref) ==
  IF ref = <<R_Pull>> THEN <<<<"1", "2">>>> ELSE <<>>

\* C33: every call of generatePrUrl returns the first of: the GitHub URL
\* <server>/<repository>/pull/<n> when the server URL and the repository are
\* non-empty and the ref contains refs/pull/<n>/; undefined when there is no
\* Bitbucket PR id; <origin>/pull-requests/<id> when the origin is non-empty;
\* the bitbucket.org URL of workspace and repo slug when both are non-empty;
\* undefined.  Repeated calls give the same result and change nothing else.
C33_PrUrlFallback ==
  /\ [](call.fn = "generatePrUrl" =>
          \A k \in 1..Len(call.out) :
            LET e == call.arg
                n == PullNumberOf(e.GITHUB_REF)
                github == /\ Truthy(e.GITHUB_SERVER_URL)
                          /\ Truthy(e.GITHUB_REPOSITORY)
                          /\ n # <<>>
                id == e.BITBUCKET_PR_ID
            IN call.out[k] =
                 CASE github ->
                        <<e.GITHUB_SERVER_URL[1] \o <<"/", "owner/repo", "/pull/">>
                            \o n[1]>>
                   [] ~github /\ ~Truthy(id) -> <<>>
                   [] ~github /\ Truthy(id) /\ Truthy(e.BITBUCKET_GIT_HTTP_ORIGIN) ->
                        <<e.BITBUCKET_GIT_HTTP_ORIGIN[1]
                            \o <<"/pull-requests/">> \o id[1]>>
                   [] OTHER ->
                        IF e.BITBUCKET_WORKSPACE # <<>> /\ e.BITBUCKET_REPO_SLUG # <<>>
                          THEN <<<<"https://bitbucket.org/", "w", "/", "r",
                                   "/pull-requests/">> \o id[1]>>
                          ELSE <<>>)
  /\ [][call'.fn = "generatePrUrl" =>
          /\ call'.arg = call.arg
          /\ UNCHANGED <<env, now, timers, mainVars, wsVars, exitVars,
                         lastActivity, connectTime, firstTrigger, drops, trace>>]_vars

\* both platforms' variables are set and the GitHub URL was returned, twice
C33_Witness ==
  /\ call.fn = "generatePrUrl" /\ Len(call.out) = 2
  /\ call.arg.GITHUB_REF = <<R_Pull>>
  /\ Truthy(call.arg.BITBUCKET_PR_ID) /\ Truthy(call.arg.BITBUCKET_GIT_HTTP_ORIGIN)
  /\ call.out[1] = <<<<"https://github.com", "/", "owner/repo", "/pull/", "1", "2">>>>
  /\ call.out[2] = call.out[1]

\* C34: at most one idle-watchdog timer is pending at any moment, and it is
\* the one the handle names; the timer whose expiry ends the run is the one
\* armed by the most recent activity signal (or by connect).
C34_SingleIdleTimer ==
  /\ [](/\ Cardinality(Pending("idle")) <= 1
        /\ Pending("idle") \subseteq Handles("idle", idleTimeout))
  /\ [][(exitReason' = "idle_timeout" /\ exitReason # "idle_timeout") =>
          timers \ timers' = {Timer("idle", lastActivity + IDLE_TIMEOUT)}]_vars

\* the watchdog was rearmed after connect and then fired
C34_Witness ==
  /\ exitReason = "idle_timeout"
  /\ lastActivity > connectTime + 1
  /\ now = lastActivity + IDLE_TIMEOUT

Awaited == {w.pub : w \in waiters}

\* C35: the wait a review:complete starts is for the publish started by the
\* last findings message received so far, and for no other; the run ends
\* through the completion path either at review:complete itself, when that
\* publish is not running, or when an awaited publish settles, or when the
\* bound of a wait expires; a publish
\* that is not awaited (an earlier one, or one started after review:complete
\* was handled) never ends the run by settling and may still run at exit.
C35_AwaitsLatestPublish ==
  /\ [][waiters' # waiters =>
          /\ reviewCompleted'
          /\ pendingPublish = Len(publishes)
          /\ waiters' = waiters \cup {[pub |-> Len(publishes), since |-> now]}]_vars
  /\ [][(~exited /\ exited' /\ exitReason' = "review_complete") =>
          \/ /\ publishes' = publishes
             /\ reviewCompleted'
             /\ pendingPublish = 0 \/ publishes[pendingPublish] # "running"
          \/ \E p \in Awaited :
               publishes[p] = "running" /\ publishes'[p] # "running"
          \/ /\ publishes' = publishes
             /\ \E t \in timers \ timers' : t.kind = "publish" /\ t.at <= now]_vars
  /\ [][\A p \in 1..Len(publishes) :
          (publishes[p] = "running" /\ publishes'[p] # "running" /\ p \notin Awaited)
            => UNCHANGED <<exitVars, socket, teardowns>>]_vars

\* the run ended when the awaited first publish settled, while the publish
\* of a findings message received after review:complete was still running
C35_Witness ==
  /\ exitReason = "review_complete"
  /\ Awaited = {1}
  /\ Len(publishes) = 2
  /\ publishes[1] # "running" /\ publishes[2] = "running"

\* C36: once disconnect() has torn the connection down the service has no
\* socket, and while it has none nothing is emitted: a command whose handler
\* completes then, and sendFindings called then, are steps that can be taken
\* and leave the outbound messages as they were.
C36_SilentAfterDisconnect ==
  /\ [](teardowns >= 1 => ~socket)
  /\ []((Running /\ ~socket /\ Len(call.arg) < MaxFindings)
          => ENABLED CallSendFindings)
  /\ [][~socket => outbox' = outbox]_vars

\* after the disconnect a command completed and sendFindings was called
C36_Witness ==
  /\ Running /\ teardowns = 1
  /\ call.fn = "sendFindings" /\ call.out = <<1>>
  /\ \A k \in 1..Len(outbox) : outbox[k].event # "agent:findings"
  /\ \E i \in 1..Len(cmds) :
       /\ cmds[i].status = "succeeded"
       /\ \A k \in Responses : outbox[k].cmd # i

\* C38: every FileDiff of one get_diff result has the same status, the one
\* the totals of the whole summary give: 'added' when there are insertions
\* and no deletions, 'deleted' when there are deletions and no insertions,
\* 'modified' otherwise; no FileDiff is 'renamed' or has an oldPath.
C38_AggregateStatus ==
  (call.fn = "getDiff" /\ call.done /\ call.out.ok) =>
    LET ins == call.arg.insertions
        del == call.arg.deletions
    IN \A i \in 1..Len(call.out.diffs) :
         LET d == call.out.diffs[i]
         IN /\ d.status = CASE ins > 0 /\ del = 0 -> "added"
                            [] del > 0 /\ ins = 0 -> "deleted"
                            [] OTHER -> "modified"
            /\ d.status # "renamed"
            /\ DOMAIN d = {"path", "status", "hunks"}
            /\ d.status = call.out.diffs[1].status

\* a file with additions only and a file with deletions only: both modified
C38_Witness ==
  /\ call.fn = "getDiff" /\ call.done /\ call.out.ok
  /\ Len(call.arg.files) = 2
  /\ call.arg.files[1].raw = <<H_Full, L_Added>>
  /\ call.arg.files[2].raw = <<H_NoOld, L_Removed>>
  /\ Len(call.out.diffs) = 2
  /\ call.out.diffs[1].status = "modified"
  /\ call.out.diffs[2].status = "modified"

\* C39: for every findings list, the empty one included, a publishFindings
\* that resolves has first created the check run as in_progress and has then
\* sent at least one update marking it completed with the conclusion of the
\* list (failure iff a finding is critical or error); the annotations are
\* sent in order, at most 50 in a request.
C39_CompletesCheckRun ==
  (call.fn = "publishFindings" /\ call.done /\ call.out.ok) =>
    LET reqs == call.out.requests
        findings == call.arg.findings
        failure == \E i \in 1..Len(findings) :
                     findings[i].severity \in {"critical", "error"}
    IN /\ Len(reqs) >= 2
       /\ reqs[1].method = "POST" /\ reqs[1].status = "in_progress"
       /\ \A r \in 2..Len(reqs) :
            /\ reqs[r].method = "PATCH" /\ reqs[r].status = "completed"
            /\ reqs[r].conclusion = IF failure THEN "failure" ELSE "success"
            /\ Len(reqs[r].annotations) <= 50
            /\ \A j \in 1..Len(reqs[r].annotations) :
                 reqs[r].annotations[j].id = 50 * (r - 2) + j
       /\ Len(findings) <= 50 * (Len(reqs) - 1)

\* C39 without the empty list: the same for every list of at least one
\* finding.
C39_NonEmptyCompletes ==
  (call.fn = "publishFindings" /\ Len(call.arg.findings) = 0) \/ C39_CompletesCheckRun

\* C40: the destination and source branches between which get_diff computes
\* its result are the branches announced as destinationBranch and
\* sourceBranch in the Registration, on GitHub Actions and on Bitbucket
\* Pipelines and for every environment.
C40_SameBranches ==
  call.fn = "branches" =>
    \A i, j \in 1..Len(call.out) :
      (call.out[i].op = "agent:register" /\ call.out[j].op = "get_diff") =>
        /\ call.out[j].sourceBranch = call.out[i].sourceBranch
        /\ call.out[j].destinationBranch = call.out[i].destinationBranch

\* C40 where it does hold: outside GitHub Actions the destination branches
\* agree always, and the source branches agree when BITBUCKET_BRANCH is set
\* and not empty.
C40_BitbucketBranches ==
  (call.fn = "branches" /\ call.arg.GITHUB_ACTIONS # <<<<"true">>>>) =>
    \A i, j \in 1..Len(call.out) :
      (call.out[i].op = "agent:register" /\ call.out[j].op = "get_diff") =>
        /\ call.out[j].destinationBranch = call.out[i].destinationBranch
        /\ Truthy(call.arg.BITBUCKET_BRANCH) =>
             call.out[j].sourceBranch = call.out[i].sourceBranch

====
